---- MODULE Spec2Model ----
(***************************************************************************)
(* Projection engine of rentobuy (web/src/lib/calculator.ts).              *)
(*                                                                         *)
(* Numbers.  The engine computes on JavaScript numbers.  They are modelled *)
(* in exact arithmetic as extended rationals <<n, d>> in lowest terms with *)
(* d >= 0:  d > 0 is the rational n/d,  <<1,0>> is Infinity, <<-1,0>> is   *)
(* -Infinity and <<0,0>> is NaN.  The value `undefined' of an absent       *)
(* optional number or of an out-of-range array read is the pair <<0,-1>>;  *)
(* arithmetic on it yields NaN as in JavaScript.  Month counts (loanTerm,  *)
(* remainingLoanTerm, months) and projectionYears are integers; an absent  *)
(* remainingLoanTerm is Absent.                                            *)
(* Arrays are sequences: JavaScript index i is TLA+ index i + 1.           *)
(***************************************************************************)
EXTENDS Integers, Sequences, FiniteSets, TLC

VARIABLES call, ret, hist

vars == <<call, ret, hist>>

----------------------------------------------------------------------------
(* Exact arithmetic on extended rationals                                  *)

Undefined == <<0, -1>>

Absent == -1

Abs(n) == IF n < 0 THEN -n ELSE n

Sign(n) == IF n < 0 THEN -1 ELSE IF n > 0 THEN 1 ELSE 0

RECURSIVE GCD(_, _)
GCD(a, b) == IF b = 0 THEN a ELSE GCD(b, a % b)

Norm(n, d) ==
  IF d = 0 THEN <<Sign(n), 0>>
  ELSE LET g == GCD(Abs(n), Abs(d))
           s == IF d < 0 THEN -1 ELSE 1
       IN <<(s * n) \div g, (s * d) \div g>>

R(n) == <<n, 1>>

Q(n, d) == Norm(n, d)

Zero == <<0, 1>>

One == <<1, 1>>

NaN == <<0, 0>>

\* ToNumber: undefined becomes NaN, a number stays itself
Num(x) == IF x = Undefined THEN NaN ELSE x

IsNaN(x) == x = NaN

IsFinite(x) == x[2] > 0

MulN(a, b) ==
  IF a[2] = 0 \/ b[2] = 0 THEN Norm(a[1] * b[1], 0)
  ELSE LET g1 == GCD(Abs(a[1]), b[2])
           g2 == GCD(Abs(b[1]), a[2])
       IN <<(a[1] \div g1) * (b[1] \div g2), (a[2] \div g2) * (b[2] \div g1)>>

RMul(x, y) == MulN(Num(x), Num(y))

AddN(a, b) ==
  IF a[2] = 0 /\ b[2] = 0 THEN (IF a = b THEN a ELSE NaN)
  ELSE IF a[2] = 0 THEN a
  ELSE IF b[2] = 0 THEN b
  ELSE LET g == GCD(a[2], b[2])
       IN Norm(a[1] * (b[2] \div g) + b[1] * (a[2] \div g), (a[2] \div g) * b[2])

RAdd(x, y) == AddN(Num(x), Num(y))

RNeg(x) == <<-(Num(x)[1]), Num(x)[2]>>

RSub(x, y) == AddN(Num(x), RNeg(y))

\* a / b: the reciprocal of b carries b's sign in the numerator
DivN(a, b) ==
  IF b[2] = 0 THEN (IF b[1] = 0 \/ a[2] = 0 THEN NaN ELSE Zero)
  ELSE IF b[1] = 0 THEN Norm(a[1], 0)
  ELSE MulN(a, <<Sign(b[1]) * b[2], Abs(b[1])>>)

RDiv(x, y) == DivN(Num(x), Num(y))

\* the sign of a - b for two comparable (non-NaN) numbers
CmpN(a, b) ==
  IF a = b THEN 0
  ELSE IF a[2] = 0 THEN a[1]
  ELSE IF b[2] = 0 THEN -(b[1])
  ELSE LET g == GCD(a[2], b[2])
       IN Sign(a[1] * (b[2] \div g) - b[1] * (a[2] \div g))

\* JavaScript comparisons: every comparison with NaN or undefined is false
RLt(x, y) == /\ ~IsNaN(Num(x)) /\ ~IsNaN(Num(y)) /\ CmpN(Num(x), Num(y)) < 0

RLe(x, y) == /\ ~IsNaN(Num(x)) /\ ~IsNaN(Num(y)) /\ CmpN(Num(x), Num(y)) <= 0

RGt(x, y) == RLt(y, x)

RGe(x, y) == RLe(y, x)

\* Math.min and Math.max return NaN when an argument is NaN
RMin(x, y) ==
  IF IsNaN(Num(x)) \/ IsNaN(Num(y)) THEN NaN
  ELSE IF CmpN(Num(x), Num(y)) <= 0 THEN Num(x) ELSE Num(y)

RMax(x, y) ==
  IF IsNaN(Num(x)) \/ IsNaN(Num(y)) THEN NaN
  ELSE IF CmpN(Num(x), Num(y)) >= 0 THEN Num(x) ELSE Num(y)

\* Math.pow(base, k) for an integer k >= 0; Math.pow(x, 0) is 1 for every x
\* base^k for an integer k >= 0
RECURSIVE PowInt(_, _)
PowInt(base, k) ==
  IF k = 0 THEN One
  ELSE IF k = 1 THEN base
  ELSE RMul(PowInt(base, k \div 2), PowInt(base, k - k \div 2))

\* truthiness of a number or undefined: 0, NaN and undefined are falsy
Truthy(x) == x # Undefined /\ x # Zero /\ x # NaN

\* x || y and x ?? y on numbers
OrElse(x, y) == IF Truthy(x) THEN x ELSE y

Coalesce(x, y) == IF x = Undefined THEN y ELSE x

\* arr[i] for a JavaScript index i: undefined outside 0 .. length-1
At(arr, i) == IF i >= 0 /\ i < Len(arr) THEN arr[i + 1] ELSE Undefined

MinInt(a, b) == IF a <= b THEN a ELSE b

MaxInt(a, b) == IF a >= b THEN a ELSE b

----------------------------------------------------------------------------
(* calculator.ts                                                           *)

MaxMonths == 360

Hundred == R(100)

Twelve == R(12)

\* x / 100
Pct(x) == RDiv(x, Hundred)

\* 1 + x / 100
OnePlusPct(x) == RAdd(One, Pct(x))

\* a payment that spreads an interest-free loan over one month too many
calculateMonthlyPaymentLate(principal, monthlyRate, months) ==
  IF monthlyRate = Zero THEN RDiv(principal, R(months + 1))
  ELSE LET factor == PowInt(RAdd(One, monthlyRate), months)
       IN RDiv(RMul(principal, RMul(monthlyRate, factor)), RSub(factor, One))

calculateMonthlyPayment(principal, monthlyRate, months) ==
  IF monthlyRate = Zero THEN RDiv(principal, R(months))
  ELSE LET factor == PowInt(RAdd(One, monthlyRate), months)
       IN RDiv(RMul(principal, RMul(monthlyRate, factor)), RSub(factor, One))

\* `${year.toString().padStart(3)}y`, prefixed by X for the loan term year
PadStart3(year) ==
  IF year < 10 THEN "  " \o ToString(year)
  ELSE IF year < 100 THEN " " \o ToString(year)
  ELSE ToString(year)

\* a label that never marks the loan term year
PeriodLabelGeneric(year, isLoanTerm) == PadStart3(year) \o "y"

\* the labels of lines 29 and 31
PeriodLabel(year, isLoanTerm) ==
  (IF isLoanTerm THEN "X" ELSE "") \o PadStart3(year) \o "y"

getPeriods(loanDuration, projectionYears) ==
  LET maxMonths == projectionYears * 12
  IN [k \in 1..(projectionYears + 1) |->
        LET year == k - 1
            months == year * 12
        IN [label |-> PeriodLabel(year,
                        /\ loanDuration > 0
                        /\ loanDuration = months
                        /\ loanDuration % 12 = 0
                        /\ loanDuration <= maxMonths),
            months |-> months]]

\* The for loops over the months are operators on the loop's state st, a
\* record of the loop counter i, the locals the loop reads and the locals and
\* arrays it updates.  Loop(hi, st) runs the iterations i = st.i .. hi - 1; a
\* range of several iterations is run as its first half followed by its
\* second half.

\* a payment that goes to the principal whole, no interest taken from it
ElapsedStepNoInterest(st) ==
  [st EXCEPT !.i = st.i + 1, !.balance = RSub(st.balance, st.payment)]

\* one payment of the elapsed-time simulation (lines 84-88)
ElapsedStep(st) ==
  [st EXCEPT !.i = st.i + 1,
             !.balance = RSub(st.balance,
                              RSub(st.payment, RMul(st.balance, st.monthlyRate)))]

RECURSIVE ElapsedLoop(_, _)
ElapsedLoop(hi, st) ==
  IF st.i < hi - 1 THEN ElapsedLoop(hi, ElapsedLoop((st.i + hi) \div 2, st))
  ELSE IF st.i < hi THEN ElapsedStep(st)
  ELSE st

\* the balance left after `n' payments of `payment' (lines 83-88)
ElapsedBalance(balance, payment, monthlyRate, n) ==
  ElapsedLoop(n, [i |-> 0, balance |-> balance, payment |-> payment,
                  monthlyRate |-> monthlyRate]).balance

\* a payment that spreads the balance evenly over the remaining term
RecalculatedPaymentEvenly(balance, monthlyRate, remainingTerm) == RDiv(balance, R(remainingTerm))

\* the payment recalculated from the remaining balance and term (line 91)
RecalculatedPayment(balance, monthlyRate, remainingTerm) == calculateMonthlyPayment(balance, monthlyRate, remainingTerm)

ElapsedLoanValues(balance, monthlyRate, remainingTerm) ==
  [effectiveLoanAmount |-> balance,
   effectiveLoanTerm |-> remainingTerm,
   monthlyLoanPayment |-> RecalculatedPayment(balance, monthlyRate, remainingTerm),
   refinanceCashOut |-> Zero]

\* values without a loan that keep the term the inputs name
NoLoanValuesKeepingTerm(inputs) ==
  [effectiveLoanAmount |-> Zero, effectiveLoanTerm |-> inputs.loanTerm,
   monthlyLoanPayment |-> Zero, refinanceCashOut |-> Zero]

\* line 46
NoLoanValues(inputs) ==
  [effectiveLoanAmount |-> Zero, effectiveLoanTerm |-> 0,
   monthlyLoanPayment |-> Zero, refinanceCashOut |-> Zero]

\* a cash-out that is never negative
RefinanceCashOutClamped(loanAmount, payoffBalance, closingCosts) ==
  RMax(Zero, RSub(RSub(loanAmount, Coalesce(payoffBalance, Zero)),
                  Coalesce(closingCosts, Zero)))

\* lines 54-56
RefinanceCashOut(loanAmount, payoffBalance, closingCosts) ==
  RSub(RSub(loanAmount, Coalesce(payoffBalance, Zero)), Coalesce(closingCosts, Zero))

getEffectiveLoanValues(inputs) ==
  IF RLe(inputs.loanAmount, Zero)
  THEN NoLoanValues(inputs)
  ELSE
    LET monthlyRate == RDiv(Pct(inputs.loanRate), Twelve)
        payment == calculateMonthlyPayment(inputs.loanAmount, monthlyRate, inputs.loanTerm)
        remainingTerm == IF inputs.remainingLoanTerm = Absent THEN inputs.loanTerm
                         ELSE inputs.remainingLoanTerm
    IN IF inputs.includeRefinance
       THEN [effectiveLoanAmount |-> inputs.loanAmount,
             effectiveLoanTerm |-> inputs.loanTerm,
             monthlyLoanPayment |-> payment,
             refinanceCashOut |->
               RefinanceCashOut(inputs.loanAmount, inputs.payoffBalance,
                                inputs.closingCosts)]
       ELSE IF remainingTerm >= inputs.loanTerm
       THEN [effectiveLoanAmount |-> inputs.loanAmount,
             effectiveLoanTerm |-> inputs.loanTerm,
             monthlyLoanPayment |-> payment,
             refinanceCashOut |-> Zero]
       ELSE ElapsedLoanValues(
              ElapsedBalance(inputs.loanAmount, payment, monthlyRate,
                             inputs.loanTerm - remainingTerm),
              monthlyRate, remainingTerm)

\* inflation that skips the first year boundary
InflationDueLate(i) == i > 12 /\ i % 12 = 0

\* the condition of line 133
InflationDue(i) == i > 0 /\ i % 12 = 0

\* the interest added to the running total, taken after the deduction
InterestTrackedAfterDeduction(interestPayment, effectiveInterestPayment) == effectiveInterestPayment

\* the interest added to totalInterestPaid: the actual interest, before the
\* deduction (line 151)
InterestTracked(interestPayment, effectiveInterestPayment) == interestPayment

\* one iteration of the month loop (lines 132-162)
CostsStep(st) ==
  LET i == st.i
      inflate == InflationDue(i)
      rent == IF inflate THEN RMul(st.currentRentingCost, st.inflation)
              ELSE st.currentRentingCost
      recurring == IF inflate THEN RMul(st.currentRecurringExpenses, st.inflation)
                   ELSE st.currentRecurringExpenses
  IN IF i < st.effectiveLoanTerm
     THEN LET interestPayment == RMul(st.currentBalance, st.monthlyRate)
              principalPayment == RSub(st.monthlyLoanPayment, interestPayment)
              effectiveInterestPayment ==
                RMul(interestPayment, RSub(One, st.taxDeductionRate))
              balance == RSub(st.currentBalance, principalPayment)
              principalPaid == RAdd(st.totalPrincipalPaid, principalPayment)
              interestPaid == RAdd(st.totalInterestPaid,
                                   InterestTracked(interestPayment, effectiveInterestPayment))
          IN [st EXCEPT
                !.i = i + 1,
                !.currentRentingCost = rent,
                !.currentRecurringExpenses = recurring,
                !.currentBalance = balance,
                !.totalPrincipalPaid = principalPaid,
                !.totalInterestPaid = interestPaid,
                !.monthlyRentingCosts = Append(st.monthlyRentingCosts, rent),
                !.monthlyBuyingCosts =
                  Append(st.monthlyBuyingCosts,
                         RAdd(RAdd(principalPayment, effectiveInterestPayment), recurring)),
                !.remainingLoanBalance = Append(st.remainingLoanBalance, balance),
                !.cumulativePrincipalPaid =
                  Append(st.cumulativePrincipalPaid, principalPaid),
                !.cumulativeInterestPaid =
                  Append(st.cumulativeInterestPaid, interestPaid)]
     ELSE [st EXCEPT
             !.i = i + 1,
             !.currentRentingCost = rent,
             !.currentRecurringExpenses = recurring,
             !.monthlyRentingCosts = Append(st.monthlyRentingCosts, rent),
             !.monthlyBuyingCosts = Append(st.monthlyBuyingCosts, recurring),
             !.remainingLoanBalance = Append(st.remainingLoanBalance, Zero),
             !.cumulativePrincipalPaid =
               Append(st.cumulativePrincipalPaid, st.totalPrincipalPaid),
             !.cumulativeInterestPaid =
               Append(st.cumulativeInterestPaid, st.totalInterestPaid)]

RECURSIVE CostsLoop(_, _)
CostsLoop(hi, st) ==
  IF st.i < hi - 1 THEN CostsLoop(hi, CostsLoop((st.i + hi) \div 2, st))
  ELSE IF st.i < hi THEN CostsStep(st)
  ELSE st

\* a factor that leaves the costs as they are
InflationFactorNone(inflationRate) == One

\* 1 + inputs.inflationRate / 100 (lines 134-135)
InflationFactor(inflationRate) == OnePlusPct(inflationRate)

\* running totals kept across calls: not reset once calculate has run
CarriedTotal == IF hist.set THEN One ELSE Zero

\* the value the running totals start from on every call (lines 129-130)
InitialTotal == Zero

\* the values of the locals before the loop (lines 115-130)
CostsStart(inputs, loan) ==
  [i |-> 0,
   inflation |-> InflationFactor(inputs.inflationRate),
   monthlyRate |-> RDiv(Pct(inputs.loanRate), Twelve),
   effectiveLoanTerm |-> loan.effectiveLoanTerm,
   monthlyLoanPayment |-> loan.monthlyLoanPayment,
   taxDeductionRate |-> Pct(inputs.mortgageInterestDeduction),
   currentRentingCost |->
     RAdd(RAdd(inputs.monthlyRent, RDiv(inputs.annualRentCosts, Twelve)),
          RDiv(inputs.otherAnnualCosts, Twelve)),
   currentRecurringExpenses |->
     RSub(RDiv(RAdd(inputs.annualInsurance, inputs.annualTaxes), Twelve),
          RDiv(inputs.annualIncome, Twelve)),
   currentBalance |-> loan.effectiveLoanAmount,
   totalPrincipalPaid |-> InitialTotal,
   totalInterestPaid |-> InitialTotal,
   monthlyRentingCosts |-> <<>>,
   monthlyBuyingCosts |-> <<>>,
   remainingLoanBalance |-> <<>>,
   cumulativePrincipalPaid |-> <<>>,
   cumulativeInterestPaid |-> <<>>]

CostsResult(st) ==
  [monthlyBuyingCosts |-> st.monthlyBuyingCosts,
   monthlyRentingCosts |-> st.monthlyRentingCosts,
   remainingLoanBalance |-> st.remainingLoanBalance,
   cumulativePrincipalPaid |-> st.cumulativePrincipalPaid,
   cumulativeInterestPaid |-> st.cumulativeInterestPaid]

PopulateWith(inputs, loan) ==
  CostsResult(CostsLoop(MaxMonths, CostsStart(inputs, loan)))

populateMonthlyCosts(inputs) == PopulateWith(inputs, getEffectiveLoanValues(inputs))

\* a tracker that lets every position earn, deficits included
EarnsAlways(netPosition) == TRUE

\* the condition of line 199
Earns(netPosition) == RGt(netPosition, Zero)

\* a month that credits no return
MonthlyReturnNone(netPosition, monthlyInvestmentRate) == Zero

\* the return credited for a month (line 200)
MonthlyReturn(netPosition, monthlyInvestmentRate) == RMul(netPosition, monthlyInvestmentRate)

\* one iteration of the tracker's loop (lines 191-207)
KeepStep(st) ==
  LET afterCost == RSub(st.netPosition, At(st.monthlyBuyingCosts, st.i))
      earns == Earns(afterCost)
      netPosition == IF earns THEN RMul(afterCost, RAdd(One, st.monthlyInvestmentRate))
                     ELSE afterCost
      totalReturns == IF earns
                      THEN RAdd(st.totalReturns,
                                MonthlyReturn(afterCost, st.monthlyInvestmentRate))
                      ELSE st.totalReturns
  IN [st EXCEPT
        !.i = st.i + 1,
        !.netPosition = netPosition,
        !.totalReturns = totalReturns,
        !.monthlyKeepNetPosition = Append(st.monthlyKeepNetPosition, netPosition),
        !.monthlyKeepInvestmentReturns =
          Append(st.monthlyKeepInvestmentReturns, totalReturns)]

RECURSIVE KeepLoop(_, _)
KeepLoop(hi, st) ==
  IF st.i < hi - 1 THEN KeepLoop(hi, KeepLoop((st.i + hi) \div 2, st))
  ELSE IF st.i < hi THEN KeepStep(st)
  ELSE st

KeepResult(st) ==
  [monthlyKeepNetPosition |-> st.monthlyKeepNetPosition,
   monthlyKeepInvestmentReturns |-> st.monthlyKeepInvestmentReturns]

calculateKeepInvestmentTracking(monthlyBuyingCosts, investmentReturnRate, maxMonths, initialCashOut) ==
  KeepResult(KeepLoop(maxMonths,
                      [i |-> 0,
                       monthlyBuyingCosts |-> monthlyBuyingCosts,
                       monthlyInvestmentRate |-> RDiv(Pct(investmentReturnRate), Twelve),
                       netPosition |-> initialCashOut,
                       totalReturns |-> Zero,
                       monthlyKeepNetPosition |-> <<>>,
                       monthlyKeepInvestmentReturns |-> <<>>]))

\* largest numerator and denominator tried for an exact fractional power
RootBound == 4

\* Math.pow(base, m / 12) for 0 < m < 12, where the result is rational
PowTwelfths(base, m) ==
  IF IsNaN(base) THEN NaN
  ELSE IF base[2] = 0 THEN <<1, 0>>
  ELSE IF base[1] < 0 THEN NaN
  ELSE IF base = Zero \/ base = One THEN base
  ELSE LET g == GCD(12, m)
       IN CHOOSE r \in {Q(p, q) : p \in 1..RootBound, q \in 1..RootBound} :
            PowInt(r, 12 \div g) = PowInt(base, m \div g)

\* rates that start over after the last entry instead of persisting
RateIndexCycling(year, length) == IF length = 0 THEN -1 ELSE year % length

\* Math.min(year, appreciationRates.length - 1) (lines 225 and 230)
RateIndex(year, length) == MinInt(year, length - 1)

\* the multiplications calculateAssetValue performs, in order: one factor
\* (1 + rate/100)^(twelfths/12) per full year and one for a trailing
\* partial year (lines 221-236)
AssetFactors(months, appreciationRates) ==
  LET years == months \div 12
      remainingMonths == months % 12
      full == [y \in 1..years |->
                 [rate |-> At(appreciationRates, RateIndex(y - 1, Len(appreciationRates))),
                  twelfths |-> 12]]
  IN IF remainingMonths > 0
     THEN Append(full,
                 [rate |-> At(appreciationRates, RateIndex(years, Len(appreciationRates))),
                  twelfths |-> remainingMonths])
     ELSE full

\* a factor that keeps the year's gain and drops the value it grew from
FactorValueGainOnly(f) == Pct(f.rate)

\* the factor of one multiplication (lines 226 and 231-235)
FactorValue(f) ==
  IF f.twelfths = 12 THEN OnePlusPct(f.rate)
  ELSE PowTwelfths(OnePlusPct(f.rate), f.twelfths)

\* assetValue multiplied by the factors of index i .. n-1, in order
RECURSIVE ApplyFactors(_, _, _, _)
ApplyFactors(assetValue, factors, i, n) ==
  IF i >= n THEN assetValue
  ELSE IF n = i + 1 THEN RMul(assetValue, FactorValue(At(factors, i)))
  ELSE ApplyFactors(ApplyFactors(assetValue, factors, i, (i + n) \div 2),
                    factors, (i + n) \div 2, n)

calculateAssetValue(startingPrice, months, appreciationRates) ==
  LET factors == AssetFactors(months, appreciationRates)
  IN ApplyFactors(startingPrice, factors, 0, Len(factors))

\* the entry of the month itself, one payment too far
LoanPayoffIndexOfMonth(months, length) == MinInt(months, length - 1)

\* Math.min(months - 1, remainingLoanBalance.length - 1) (line 273)
LoanPayoffIndex(months, length) == MinInt(months - 1, length - 1)

\* lines 262-275
LoanPayoff(months, remainingLoanBalance, effectiveLoanAmount) ==
  IF months = 0 /\ effectiveLoanAmount # Undefined THEN effectiveLoanAmount
  ELSE IF months = 0
  THEN RAdd(At(remainingLoanBalance, 0),
            RSub(At(remainingLoanBalance, 0), At(remainingLoanBalance, 1)))
  ELSE At(remainingLoanBalance, LoanPayoffIndex(months, Len(remainingLoanBalance)))

\* the limit looked up by the number of elapsed years
TaxFreeLimitIndexByElapsed(years, length) == MinInt(years, length - 1)

\* Math.max(0, Math.min(years - 1, taxFreeLimits.length - 1)) (line 296)
TaxFreeLimitIndex(years, length) == MaxInt(0, MinInt(years - 1, length - 1))

\* a tax on the difference to the limit, whatever its sign
TaxOnGainsUnclamped(capitalGains, taxFreeLimit, capitalGainsTax) ==
  RMul(RSub(capitalGains, taxFreeLimit), Pct(capitalGainsTax))

\* lines 299-300
TaxOnGains(capitalGains, taxFreeLimit, capitalGainsTax) ==
  RMul(RMax(Zero, RSub(capitalGains, taxFreeLimit)), Pct(capitalGainsTax))

\* the proceeds before the tax on the gains
NetProceedsBeforeTax(salePrice, totalSellingCosts, loanPayoff, taxOnGains) ==
  RSub(RSub(salePrice, totalSellingCosts), loanPayoff)

\* line 302
NetProceeds(salePrice, totalSellingCosts, loanPayoff, taxOnGains) ==
  RSub(RSub(RSub(salePrice, totalSellingCosts), loanPayoff), taxOnGains)

\* lines 277-311, given the sale price and the loan payoff
SaleProceedsOf(inputs, months, salePrice, loanPayoff, includeSelling) ==
  IF ~includeSelling
  THEN [salePrice |-> salePrice, totalSellingCosts |-> Zero, loanPayoff |-> loanPayoff,
        capitalGains |-> Zero, taxOnGains |-> Zero,
        netProceeds |-> RSub(salePrice, loanPayoff)]
  ELSE LET years == months \div 12
           inflatedStagingCosts ==
             RMul(inputs.stagingCosts, PowInt(OnePlusPct(inputs.inflationRate), years))
           agentFee == RMul(salePrice, Pct(inputs.agentCommission))
           totalSellingCosts == RAdd(agentFee, inflatedStagingCosts)
           capitalGains == RSub(RSub(salePrice, inputs.purchasePrice), totalSellingCosts)
           taxFreeLimit ==
             OrElse(At(inputs.taxFreeLimits,
                       TaxFreeLimitIndex(years, Len(inputs.taxFreeLimits))), Zero)
           taxOnGains == TaxOnGains(capitalGains, taxFreeLimit, inputs.capitalGainsTax)
       IN [salePrice |-> salePrice, totalSellingCosts |-> totalSellingCosts,
           loanPayoff |-> loanPayoff, capitalGains |-> capitalGains,
           taxOnGains |-> taxOnGains,
           netProceeds |->
             NetProceeds(salePrice, totalSellingCosts, loanPayoff, taxOnGains)]

calculateSaleProceeds(inputs, months, remainingLoanBalance, effectiveLoanAmount, includeSelling) ==
  SaleProceedsOf(inputs, months,
    calculateAssetValue(
      IF inputs.scenario = "sell_vs_keep" /\ Truthy(inputs.currentMarketValue)
      THEN inputs.currentMarketValue ELSE inputs.purchasePrice,
      months, inputs.appreciationRate),
    LoanPayoff(months, remainingLoanBalance, effectiveLoanAmount),
    includeSelling)

\* a month whose savings are added after the month's return
RentingMonthSavingsLast(investmentValue, monthlySavings, growth) == RAdd(RMul(investmentValue, growth), monthlySavings)

\* lines 326-327: the month's savings are added, then the value compounds
RentingMonth(investmentValue, monthlySavings, growth) == RMul(RAdd(investmentValue, monthlySavings), growth)

\* one month of the renter's investment (lines 325-327)
RentingStep(st) ==
  [st EXCEPT !.i = st.i + 1,
             !.investmentValue =
               RentingMonth(st.investmentValue,
                            RSub(At(st.monthlyBuyingCosts, st.i),
                                 At(st.monthlyRentingCosts, st.i)),
                            st.growth)]

RECURSIVE RentingLoop(_, _)
RentingLoop(hi, st) ==
  IF st.i < hi - 1 THEN RentingLoop(hi, RentingLoop((st.i + hi) \div 2, st))
  ELSE IF st.i < hi THEN RentingStep(st)
  ELSE st

calculateRentingNetWorth(inputs, months, monthlyBuyingCosts, monthlyRentingCosts) ==
  RAdd(RentingLoop(months,
         [i |-> 0,
          investmentValue |->
            RSub(RSub(inputs.purchasePrice, inputs.loanAmount), inputs.rentDeposit),
          monthlyBuyingCosts |-> monthlyBuyingCosts,
          monthlyRentingCosts |-> monthlyRentingCosts,
          growth |-> RAdd(One, RDiv(Pct(inputs.investmentReturnRate), Twelve))]
       ).investmentValue,
       RMul(inputs.rentDeposit, Q(3, 4)))

SumStep(st) ==
  [st EXCEPT !.i = st.i + 1, !.acc = RAdd(st.acc, At(st.arr, st.i))]

RECURSIVE SumLoop(_, _)
SumLoop(hi, st) ==
  IF st.i < hi - 1 THEN SumLoop(hi, SumLoop((st.i + hi) \div 2, st))
  ELSE IF st.i < hi THEN SumStep(st)
  ELSE st

\* acc + arr[i] + ... + arr[n-1], added in index order
SumFrom(acc, arr, i, n) == SumLoop(n, [i |-> i, acc |-> acc, arr |-> arr]).acc

\* acc + sum over year = 0 .. n-1 of amount * (1 + inflationRate/100)^year
RECURSIVE InflatedSum(_, _, _, _, _)
InflatedSum(acc, amount, inflationRate, year, n) ==
  IF year >= n THEN acc
  ELSE IF n = year + 1
  THEN RAdd(acc, RMul(amount, PowInt(OnePlusPct(inflationRate), year)))
  ELSE InflatedSum(InflatedSum(acc, amount, inflationRate, year, (year + n) \div 2),
                   amount, inflationRate, (year + n) \div 2, n)

\* the number of integers year >= 0 with year < months / 12
YearsCovering(months) == (months + 11) \div 12

\* a table that calculate leaves unset
NoTable == <<>>

\* Math.min(period.months - 1, array.length - 1)
MonthIndex(months) == MinInt(months - 1, MaxMonths - 1)

\* the flag taken from the inputs as it is, whatever the scenario
ShouldIncludeSellingAsAsked(inputs) == inputs.includeSelling

\* line 348
ShouldIncludeSelling(inputs) ==
  IF inputs.scenario = "sell_vs_keep" THEN TRUE ELSE inputs.includeSelling

\* lines 349-355
SaleProceedsRow(inputs, period, costs, loan) ==
  LET proceeds == calculateSaleProceeds(inputs, period.months, costs.remainingLoanBalance,
                    loan.effectiveLoanAmount, ShouldIncludeSelling(inputs))
  IN [period |-> "SALE " \o period.label,
      salePrice |-> proceeds.salePrice,
      totalSellingCosts |-> proceeds.totalSellingCosts,
      loanPayoff |-> proceeds.loanPayoff,
      capitalGains |-> proceeds.capitalGains,
      taxOnGains |-> proceeds.taxOnGains,
      netProceeds |-> proceeds.netProceeds]

\* lines 370-396 and 496-522
AmortizationRow(inputs, period, costs, loan) ==
  IF period.months = 0
  THEN [period |-> "LOAN " \o period.label, principalPaid |-> Zero, interestPaid |-> Zero,
        taxDeduction |-> Zero, effectiveInterest |-> Zero, effectiveLoanPayment |-> Zero,
        loanBalance |-> loan.effectiveLoanAmount]
  ELSE LET monthIndex == MonthIndex(period.months)
           principalPaid == At(costs.cumulativePrincipalPaid, monthIndex)
           interestPaid == At(costs.cumulativeInterestPaid, monthIndex)
           taxDeduction == RMul(interestPaid, Pct(inputs.mortgageInterestDeduction))
           effectiveInterest == RSub(interestPaid, taxDeduction)
       IN [period |-> "LOAN " \o period.label,
           principalPaid |-> principalPaid,
           interestPaid |-> interestPaid,
           taxDeduction |-> taxDeduction,
           effectiveInterest |-> effectiveInterest,
           effectiveLoanPayment |-> RAdd(principalPaid, effectiveInterest),
           loanBalance |-> At(costs.remainingLoanBalance, monthIndex)]

AmortizationTable(inputs, periods, costs, loan) ==
  IF RGt(inputs.loanAmount, Zero)
  THEN [k \in 1..Len(periods) |-> AmortizationRow(inputs, periods[k], costs, loan)]
  ELSE NoTable

\* lines 400-433; amortRow is the amortization row of the same index, or
\* Undefined when there is no amortization table
ExpenditureRow(inputs, period, costs, hasAmort, amortRow) ==
  LET buyingExpenditure ==
        SumFrom(RSub(inputs.purchasePrice, inputs.loanAmount),
                costs.monthlyBuyingCosts, 0, period.months)
      rentingExpenditure ==
        SumFrom(inputs.rentDeposit, costs.monthlyRentingCosts, 0, period.months)
  IN [period |-> "EXP " \o period.label,
      loanPayment |-> IF hasAmort THEN RAdd(amortRow.principalPaid, amortRow.interestPaid)
                      ELSE Zero,
      taxDeduction |-> IF hasAmort THEN amortRow.taxDeduction ELSE Zero,
      effectiveLoanPayment |-> IF hasAmort THEN amortRow.effectiveLoanPayment ELSE Zero,
      costs |-> InflatedSum(Zero,
                  RSub(RAdd(inputs.annualInsurance, inputs.annualTaxes), inputs.annualIncome),
                  inputs.inflationRate, 0, YearsCovering(period.months)),
      buyingExpenditure |-> buyingExpenditure,
      rentingExpenditure |-> rentingExpenditure,
      difference |-> RSub(buyingExpenditure, rentingExpenditure)]

\* lines 469-472
SavingsStep(st) ==
  [st EXCEPT !.i = st.i + 1,
             !.acc = RAdd(st.acc, RSub(At(st.monthlyBuyingCosts, st.i),
                                       At(st.monthlyRentingCosts, st.i)))]

RECURSIVE SavingsLoop(_, _)
SavingsLoop(hi, st) ==
  IF st.i < hi - 1 THEN SavingsLoop(hi, SavingsLoop((st.i + hi) \div 2, st))
  ELSE IF st.i < hi THEN SavingsStep(st)
  ELSE st

\* the difference taken the other way round, buying minus renting
BuyMinusRent(rentingNetWorth, buyingNetWorth) == RSub(buyingNetWorth, rentingNetWorth)

\* the difference field of a comparison row (line 484)
RentMinusBuy(rentingNetWorth, buyingNetWorth) == RSub(rentingNetWorth, buyingNetWorth)

\* a balance of period 0 taken from the end of the first month
ComparisonLoanBalanceAfterFirstMonth(months, remainingLoanBalance, effectiveLoanAmount) == At(remainingLoanBalance, MonthIndex(MaxInt(months, 1)))

\* the loan balance a comparison row subtracts (lines 444-446)
ComparisonLoanBalance(months, remainingLoanBalance, effectiveLoanAmount) == IF months = 0 THEN effectiveLoanAmount ELSE At(remainingLoanBalance, MonthIndex(months))

\* savings that start at the down payment, the deposit not taken off
SavingsStartDownpayment(inputs) == RSub(inputs.purchasePrice, inputs.loanAmount)

\* cumulativeSavings before the first month (line 469)
SavingsStart(inputs) == RSub(RSub(inputs.purchasePrice, inputs.loanAmount), inputs.rentDeposit)

\* lines 437-486
ComparisonRow(inputs, period, costs, loan) ==
  LET assetValue == calculateAssetValue(inputs.purchasePrice, period.months,
                                        inputs.appreciationRate)
      loanBalance == ComparisonLoanBalance(period.months, costs.remainingLoanBalance,
                                           loan.effectiveLoanAmount)
      buyingNetWorth ==
        IF inputs.includeSelling
        THEN calculateSaleProceeds(inputs, period.months, costs.remainingLoanBalance,
                                   loan.effectiveLoanAmount, TRUE).netProceeds
        ELSE RSub(assetValue, loanBalance)
      rentingNetWorth == calculateRentingNetWorth(inputs, period.months,
                           costs.monthlyBuyingCosts, costs.monthlyRentingCosts)
      cumulativeSavings ==
        SavingsLoop(period.months,
          [i |-> 0,
           acc |-> SavingsStart(inputs),
           monthlyBuyingCosts |-> costs.monthlyBuyingCosts,
           monthlyRentingCosts |-> costs.monthlyRentingCosts]).acc
      recoverableDeposit == RMul(inputs.rentDeposit, Q(3, 4))
  IN [period |-> "NET " \o period.label,
      assetValue |-> assetValue,
      buyingNetWorth |-> buyingNetWorth,
      cumulativeSavings |-> cumulativeSavings,
      marketReturn |-> RSub(RSub(rentingNetWorth, cumulativeSavings), recoverableDeposit),
      rentingNetWorth |-> rentingNetWorth,
      difference |-> RentMinusBuy(rentingNetWorth, buyingNetWorth)]

\* lines 525-570
KeepExpensesRow(inputs, period, costs, loan, keepTracking, hasAmort, amortRow) ==
  IF period.months = 0
  THEN [period |-> "KEEP " \o period.label, loanPayment |-> Zero, taxDeduction |-> Zero,
        effectiveLoanPayment |-> Zero, incomeMinusCosts |-> Zero, cumulativeExp |-> Zero,
        investmentReturns |-> Zero, netPosition |-> loan.refinanceCashOut]
  ELSE LET monthIndex == MonthIndex(period.months)
       IN [period |-> "KEEP " \o period.label,
           loanPayment |-> IF hasAmort
                           THEN RAdd(amortRow.principalPaid, amortRow.interestPaid)
                           ELSE Zero,
           taxDeduction |-> IF hasAmort THEN amortRow.taxDeduction ELSE Zero,
           effectiveLoanPayment |->
             RNeg(IF hasAmort THEN amortRow.effectiveLoanPayment ELSE Zero),
           incomeMinusCosts |->
             InflatedSum(Zero,
               RSub(RSub(inputs.annualIncome, inputs.annualInsurance), inputs.annualTaxes),
               inputs.inflationRate, 0, YearsCovering(period.months)),
           cumulativeExp |->
             RNeg(SumFrom(Zero, costs.monthlyBuyingCosts, 0, period.months)),
           investmentReturns |-> At(keepTracking.monthlyKeepInvestmentReturns, monthIndex),
           netPosition |-> At(keepTracking.monthlyKeepNetPosition, monthIndex)]

\* one month of the sell path (lines 600-628)
SellStep(st) ==
  [st EXCEPT !.i = st.i + 1,
             !.investmentValue =
               RMul(IF st.payRent
                    THEN RSub(st.investmentValue, At(st.monthlyRentingCosts, st.i))
                    ELSE st.investmentValue,
                    st.growth)]

RECURSIVE SellLoop(_, _)
SellLoop(hi, st) ==
  IF st.i < hi - 1 THEN SellLoop(hi, SellLoop((st.i + hi) \div 2, st))
  ELSE IF st.i < hi THEN SellStep(st)
  ELSE st

\* investmentValue after `n' months of the sell path
SellPath(investmentValue, monthlyRentingCosts, payRent, growth, n) ==
  SellLoop(n, [i |-> 0, investmentValue |-> investmentValue,
               monthlyRentingCosts |-> monthlyRentingCosts,
               payRent |-> payRent, growth |-> growth]).investmentValue

\* lines 586-595: the proceeds of selling now
NetProceedsNow(inputs, loan) ==
  LET salePrice == OrElse(inputs.currentMarketValue, inputs.purchasePrice)
      totalSellingCosts == RAdd(RMul(salePrice, Pct(inputs.agentCommission)),
                                inputs.stagingCosts)
      capitalGains == RSub(RSub(salePrice, inputs.purchasePrice), totalSellingCosts)
      taxOnGains == TaxOnGains(capitalGains, OrElse(At(inputs.taxFreeLimits, 0), Zero),
                               inputs.capitalGainsTax)
  IN RSub(RSub(RSub(salePrice, totalSellingCosts), loan.effectiveLoanAmount), taxOnGains)

\* lines 572-639
SellVsKeepRow(inputs, period, costs, loan, keepTracking) ==
  LET keepNetPosition ==
        IF period.months = 0 THEN Zero
        ELSE At(keepTracking.monthlyKeepNetPosition, MonthIndex(period.months))
      netProceeds == calculateSaleProceeds(inputs, period.months, costs.remainingLoanBalance,
                                           loan.effectiveLoanAmount, TRUE).netProceeds
      keepNetWorth == RAdd(netProceeds, keepNetPosition)
      growth == RAdd(One, RDiv(Pct(inputs.investmentReturnRate), Twelve))
      recoverableDeposit == RMul(inputs.rentDeposit, Q(3, 4))
      sellNetWorth ==
        IF inputs.includeRentingSell
        THEN RAdd(SellPath(RSub(NetProceedsNow(inputs, loan), inputs.rentDeposit),
                           costs.monthlyRentingCosts, TRUE, growth, period.months),
                  recoverableDeposit)
        ELSE SellPath(NetProceedsNow(inputs, loan), costs.monthlyRentingCosts, FALSE,
                      growth, period.months)
  IN [period |-> "NET " \o period.label,
      sellCumulativeExpenses |->
        IF inputs.includeRentingSell
        THEN RSub(SumFrom(inputs.rentDeposit, costs.monthlyRentingCosts, 0, period.months),
                  recoverableDeposit)
        ELSE Undefined,
      sellNetWorth |-> sellNetWorth,
      keepSaleProceeds |-> netProceeds,
      keepNetPosition |-> keepNetPosition,
      keepNetWorth |-> keepNetWorth,
      difference |-> RSub(keepNetWorth, sellNetWorth)]

\* the scalars of the payoff_vs_invest scenario (lines 642-657)
PayoffParams(inputs, loan) ==
  LET extraUpfront == OrElse(inputs.extraUpfrontPayment, Zero)
      monthlyRate == RDiv(Pct(inputs.loanRate), Twelve)
      loanTermMonths == IF inputs.remainingLoanTerm = Absent \/ inputs.remainingLoanTerm = 0
                        THEN inputs.loanTerm ELSE inputs.remainingLoanTerm
      upfrontPrincipal == RMin(extraUpfront, loan.effectiveLoanAmount)
      payoffStartingBalance == RSub(loan.effectiveLoanAmount, upfrontPrincipal)
  IN [extraPayment |-> OrElse(inputs.extraMonthlyPayment, Zero),
      extraUpfront |-> extraUpfront,
      monthlyRate |-> monthlyRate,
      monthlyInvestmentRate |-> RDiv(Pct(inputs.investmentReturnRate), Twelve),
      regularPayment |-> loan.monthlyLoanPayment,
      loanTermMonths |-> loanTermMonths,
      upfrontPrincipal |-> upfrontPrincipal,
      payoffStartingBalance |-> payoffStartingBalance,
      payoffRegularPayment |->
        IF inputs.recalculatePayment /\ RGt(extraUpfront, Zero)
           /\ RGt(payoffStartingBalance, Zero)
        THEN calculateMonthlyPayment(payoffStartingBalance, monthlyRate, loanTermMonths)
        ELSE loan.monthlyLoanPayment]

\* one month of the INVEST path (lines 673-698); the arrays that no table
\* reads (contributions, monthly effective payment) are left out
InvestStep(st) ==
  LET paying == st.i < st.pp.loanTermMonths /\ RGt(st.investBalance, Zero)
      investment == RMul(RAdd(st.investInvestment, st.pp.extraPayment),
                         RAdd(One, st.pp.monthlyInvestmentRate))
      effective == IF paying THEN RAdd(st.investTotalEffectivePayment, st.pp.regularPayment)
                   ELSE st.investTotalEffectivePayment
  IN [i |-> st.i + 1,
      pp |-> st.pp,
      investInvestment |-> investment,
      investBalance |->
        IF paying
        THEN RMax(Zero, RSub(st.investBalance,
                             RSub(st.pp.regularPayment, RMul(st.investBalance, st.pp.monthlyRate))))
        ELSE st.investBalance,
      investTotalEffectivePayment |-> effective,
      investInvestmentValues |-> Append(st.investInvestmentValues, investment),
      investCumulativeEffectivePayment |->
        Append(st.investCumulativeEffectivePayment, effective)]

RECURSIVE InvestLoop(_, _)
InvestLoop(hi, st) ==
  IF st.i < hi - 1 THEN InvestLoop(hi, InvestLoop((st.i + hi) \div 2, st))
  ELSE IF st.i < hi THEN InvestStep(st)
  ELSE st

InvestPath(loan, pp) ==
  InvestLoop(MaxMonths, [i |-> 0, pp |-> pp, investInvestment |-> pp.extraUpfront,
                 investBalance |-> loan.effectiveLoanAmount,
                 investTotalEffectivePayment |-> Zero,
                 investInvestmentValues |-> <<>>,
                 investCumulativeEffectivePayment |-> <<>>])

\* a contribution of the extra payment alone
PayoffContributionExtraOnly(pp) == pp.extraPayment

\* what a month after the loan is closed puts in the investment (line 744)
PayoffContribution(pp) == RAdd(pp.payoffRegularPayment, pp.extraPayment)

\* one month of the PAYOFF path (lines 721-761); the arrays that no table
\* reads (contributions, returns) are left out
PayoffStep(st) ==
  IF ~st.loanPaidOff /\ RGt(st.payoffBalance, Zero)
  THEN LET interestPayment == RMul(st.payoffBalance, st.pp.monthlyRate)
           desiredPrincipalPayment ==
             RAdd(RSub(st.pp.payoffRegularPayment, interestPayment), st.pp.extraPayment)
           actualPrincipalPayment == RMin(desiredPrincipalPayment, st.payoffBalance)
           balance == RSub(st.payoffBalance, actualPrincipalPayment)
           closed == RLe(balance, Zero)
           interest == RAdd(st.payoffTotalInterest, interestPayment)
           principal == RAdd(st.payoffTotalPrincipal, actualPrincipalPayment)
           effective == RAdd(st.payoffTotalEffectivePayment,
                             RAdd(interestPayment, actualPrincipalPayment))
       IN [i |-> st.i + 1,
      pp |-> st.pp,
           payoffBalance |-> IF closed THEN Zero ELSE balance,
           payoffNetPosition |-> st.payoffNetPosition,
           loanPaidOff |-> closed,
           payoffTotalPrincipal |-> principal,
           payoffTotalInterest |-> interest,
           payoffTotalEffectivePayment |-> effective,
           payoffLoanBalances |->
             Append(st.payoffLoanBalances, IF closed THEN Zero ELSE balance),
           payoffInvestmentValues |-> Append(st.payoffInvestmentValues, st.payoffNetPosition),
           payoffCumulativePrincipal |-> Append(st.payoffCumulativePrincipal, principal),
           payoffCumulativeInterest |-> Append(st.payoffCumulativeInterest, interest),
           payoffCumulativeEffectivePayment |->
             Append(st.payoffCumulativeEffectivePayment, effective)]
  ELSE LET contributed == RAdd(st.payoffNetPosition, PayoffContribution(st.pp))
           netPosition == RAdd(contributed, RMul(contributed, st.pp.monthlyInvestmentRate))
       IN [i |-> st.i + 1,
      pp |-> st.pp,
           payoffBalance |-> st.payoffBalance,
           payoffNetPosition |-> netPosition,
           loanPaidOff |-> st.loanPaidOff,
           payoffTotalPrincipal |-> st.payoffTotalPrincipal,
           payoffTotalInterest |-> st.payoffTotalInterest,
           payoffTotalEffectivePayment |-> st.payoffTotalEffectivePayment,
           payoffLoanBalances |-> Append(st.payoffLoanBalances, st.payoffBalance),
           payoffInvestmentValues |-> Append(st.payoffInvestmentValues, netPosition),
           payoffCumulativePrincipal |->
             Append(st.payoffCumulativePrincipal, st.payoffTotalPrincipal),
           payoffCumulativeInterest |->
             Append(st.payoffCumulativeInterest, st.payoffTotalInterest),
           payoffCumulativeEffectivePayment |->
             Append(st.payoffCumulativeEffectivePayment, st.payoffTotalEffectivePayment)]

RECURSIVE PayoffLoop(_, _)
PayoffLoop(hi, st) ==
  IF st.i < hi - 1 THEN PayoffLoop(hi, PayoffLoop((st.i + hi) \div 2, st))
  ELSE IF st.i < hi THEN PayoffStep(st)
  ELSE st

PayoffPath(pp) ==
  PayoffLoop(MaxMonths, [i |-> 0, pp |-> pp, payoffBalance |-> pp.payoffStartingBalance,
                 payoffNetPosition |-> Zero,
                 loanPaidOff |-> RLe(pp.payoffStartingBalance, Zero),
                 payoffTotalPrincipal |-> pp.upfrontPrincipal,
                 payoffTotalInterest |-> Zero,
                 payoffTotalEffectivePayment |-> pp.extraUpfront,
                 payoffLoanBalances |-> <<>>,
                 payoffInvestmentValues |-> <<>>,
                 payoffCumulativePrincipal |-> <<>>,
                 payoffCumulativeInterest |-> <<>>,
                 payoffCumulativeEffectivePayment |-> <<>>])

\* lines 764-788
PayoffAmortizationRow(period, pp, payoff) ==
  IF period.months = 0
  THEN [period |-> "PAYOFF " \o period.label, principalPaid |-> pp.upfrontPrincipal,
        interestPaid |-> Zero, taxDeduction |-> Zero, effectiveInterest |-> Zero,
        effectiveLoanPayment |-> pp.extraUpfront, loanBalance |-> pp.payoffStartingBalance]
  ELSE LET monthIndex == MonthIndex(period.months)
       IN [period |-> "PAYOFF " \o period.label,
           principalPaid |-> At(payoff.payoffCumulativePrincipal, monthIndex),
           interestPaid |-> At(payoff.payoffCumulativeInterest, monthIndex),
           taxDeduction |-> Zero,
           effectiveInterest |-> At(payoff.payoffCumulativeInterest, monthIndex),
           effectiveLoanPayment |-> At(payoff.payoffCumulativeEffectivePayment, monthIndex),
           loanBalance |-> At(payoff.payoffLoanBalances, monthIndex)]

\* lines 791-815; investLoanBalances is a copy of costs.remainingLoanBalance
InvestAmortizationRow(period, costs, loan, invest) ==
  IF period.months = 0
  THEN [period |-> "INVEST " \o period.label, principalPaid |-> Zero,
        interestPaid |-> Zero, taxDeduction |-> Zero, effectiveInterest |-> Zero,
        effectiveLoanPayment |-> Zero, loanBalance |-> loan.effectiveLoanAmount]
  ELSE LET monthIndex == MonthIndex(period.months)
       IN [period |-> "INVEST " \o period.label,
           principalPaid |-> At(costs.cumulativePrincipalPaid, monthIndex),
           interestPaid |-> At(costs.cumulativeInterestPaid, monthIndex),
           taxDeduction |-> Zero,
           effectiveInterest |-> At(costs.cumulativeInterestPaid, monthIndex),
           effectiveLoanPayment |-> At(invest.investCumulativeEffectivePayment, monthIndex),
           loanBalance |-> At(costs.remainingLoanBalance, monthIndex)]

\* lines 818-852
PayoffVsInvestRow(period, costs, loan, invest, payoff) ==
  IF period.months = 0
  THEN [period |-> "NET " \o period.label,
        payoffLoanBalance |-> loan.effectiveLoanAmount,
        payoffInvestmentValue |-> Zero,
        payoffWealth |-> RNeg(loan.effectiveLoanAmount),
        investLoanBalance |-> loan.effectiveLoanAmount,
        investInvestmentValue |-> Zero,
        investWealth |-> RNeg(loan.effectiveLoanAmount),
        difference |-> Zero]
  ELSE LET monthIndex == MonthIndex(period.months)
           payoffLoanBal == At(payoff.payoffLoanBalances, monthIndex)
           payoffInvest == At(payoff.payoffInvestmentValues, monthIndex)
           payoffWealth == RSub(payoffInvest, payoffLoanBal)
           investLoanBal == At(costs.remainingLoanBalance, monthIndex)
           investInvest == At(invest.investInvestmentValues, monthIndex)
           investWealth == RSub(investInvest, investLoanBal)
       IN [period |-> "NET " \o period.label,
           payoffLoanBalance |-> payoffLoanBal,
           payoffInvestmentValue |-> payoffInvest,
           payoffWealth |-> payoffWealth,
           investLoanBalance |-> investLoanBal,
           investInvestmentValue |-> investInvest,
           investWealth |-> investWealth,
           difference |-> RSub(payoffWealth, investWealth)]

\* lines 357-855, given the values computed on lines 335-344
CalculateTables(inputs, loan, costs, periods, keepTracking, amortizationTable, pp) ==
  LET n == Len(periods)
      hasAmort == amortizationTable # NoTable
      buyVsRent == inputs.scenario = "buy_vs_rent"
      sellVsKeep == inputs.scenario = "sell_vs_keep"
      payoffVsInvest == inputs.scenario = "payoff_vs_invest"
      invest == IF payoffVsInvest THEN InvestPath(loan, pp) ELSE <<>>
      payoff == IF payoffVsInvest THEN PayoffPath(pp) ELSE <<>>
  IN [monthlyBuyingCosts |-> costs.monthlyBuyingCosts,
      monthlyRentingCosts |-> costs.monthlyRentingCosts,
      remainingLoanBalance |-> costs.remainingLoanBalance,
      cumulativePrincipalPaid |-> costs.cumulativePrincipalPaid,
      cumulativeInterestPaid |-> costs.cumulativeInterestPaid,
      monthlyKeepNetPosition |-> keepTracking.monthlyKeepNetPosition,
      monthlyKeepInvestmentReturns |-> keepTracking.monthlyKeepInvestmentReturns,
      periods |-> periods,
      saleProceedsTable |->
        [k \in 1..n |-> SaleProceedsRow(inputs, periods[k], costs, loan)],
      amortizationTable |-> amortizationTable,
      expenditureTable |->
        IF buyVsRent
        THEN [k \in 1..n |->
                ExpenditureRow(inputs, periods[k], costs, hasAmort,
                               IF hasAmort THEN amortizationTable[k] ELSE Undefined)]
        ELSE NoTable,
      comparisonTable |->
        IF buyVsRent
        THEN [k \in 1..n |-> ComparisonRow(inputs, periods[k], costs, loan)]
        ELSE NoTable,
      keepExpensesTable |->
        IF sellVsKeep
        THEN [k \in 1..n |->
                KeepExpensesRow(inputs, periods[k], costs, loan, keepTracking, hasAmort,
                                IF hasAmort THEN amortizationTable[k] ELSE Undefined)]
        ELSE NoTable,
      sellVsKeepTable |->
        IF sellVsKeep
        THEN [k \in 1..n |-> SellVsKeepRow(inputs, periods[k], costs, loan, keepTracking)]
        ELSE NoTable,
      payoffAmortizationTable |->
        IF payoffVsInvest
        THEN [k \in 1..n |-> PayoffAmortizationRow(periods[k], pp, payoff)]
        ELSE NoTable,
      investAmortizationTable |->
        IF payoffVsInvest
        THEN [k \in 1..n |-> InvestAmortizationRow(periods[k], costs, loan, invest)]
        ELSE NoTable,
      payoffVsInvestTable |->
        IF payoffVsInvest
        THEN [k \in 1..n |-> PayoffVsInvestRow(periods[k], costs, loan, invest, payoff)]
        ELSE NoTable]

CalculateFrom(inputs, loan, costs, periods) ==
  CalculateTables(inputs, loan, costs, periods,
    calculateKeepInvestmentTracking(costs.monthlyBuyingCosts, inputs.investmentReturnRate,
                                    MaxMonths, loan.refinanceCashOut),
    IF inputs.scenario \in {"buy_vs_rent", "sell_vs_keep"}
    THEN AmortizationTable(inputs, periods, costs, loan) ELSE NoTable,
    PayoffParams(inputs, loan))

CalculateWith(inputs, loan) ==
  CalculateFrom(inputs, loan, PopulateWith(inputs, loan),
                getPeriods(loan.effectiveLoanTerm, inputs.projectionYears))

\* calculate returns its results; it has no path that throws or rejects
calculate(inputs) == CalculateWith(inputs, getEffectiveLoanValues(inputs))

\* calculateAssetValue's result in factored form: the value returned is
\* startingPrice times the product of the listed factors
AssetValueFactored(startingPrice, months, appreciationRates) ==
  [startingPrice |-> startingPrice, factors |-> AssetFactors(months, appreciationRates)]

----------------------------------------------------------------------------
(* The inputs the engine is driven with                                    *)

\* longest term of the loans at 1200% and longest cash-flow sequence
MaxPowTerm == 5

MaxFlowLen == 3

MaxLoanDuration == 26

MaxProjectionYears == 2

BaseInputs ==
  [scenario |-> "buy_vs_rent", inflationRate |-> Zero, investmentReturnRate |-> Zero,
   projectionYears |-> 1, purchasePrice |-> R(100), currentMarketValue |-> Undefined,
   annualInsurance |-> Zero, annualTaxes |-> Zero, annualIncome |-> Zero,
   appreciationRate |-> <<R(100)>>,
   loanAmount |-> Zero, loanRate |-> Zero, loanTerm |-> 12, remainingLoanTerm |-> Absent,
   includeRefinance |-> FALSE, payoffBalance |-> Undefined, closingCosts |-> Undefined,
   mortgageInterestDeduction |-> Zero, extraMonthlyPayment |-> Undefined,
   extraUpfrontPayment |-> Undefined, recalculatePayment |-> FALSE,
   rentDeposit |-> Zero, monthlyRent |-> One, annualRentCosts |-> Zero,
   otherAnnualCosts |-> Zero,
   includeSelling |-> TRUE, includeRentingSell |-> FALSE, agentCommission |-> Zero,
   stagingCosts |-> Zero, taxFreeLimits |-> <<R(99)>>, capitalGainsTax |-> R(20)]

\* 2^n
RECURSIVE Pow2(_)
Pow2(n) == IF n = 0 THEN 1 ELSE 2 * Pow2(n - 1)

\* loans <<loanAmount, loanRate, loanTerm, remainingLoanTerm>>: at 1200% a year
\* (100% a month) with principal 2^T - 1, at 600% a year, interest free, and
\* none
PowLoans ==
  {<<R(Pow2(t) - 1), R(1200), t, Absent>> : t \in 1..MaxPowTerm}
    \cup {<<R(Pow2(t) - 1), R(1200), t, t - 1>> : t \in 3..MaxPowTerm}

OtherLoans ==
  {<<R(4095), R(1200), 12, Absent>>, <<R(4095), R(1200), 12, 5>>,
   <<R(10), R(600), 2, Absent>>, <<R(19), R(600), 3, 2>>,
   <<R(100), Zero, 7, Absent>>, <<R(360), Zero, 360, Absent>>,
   <<R(120), Zero, 24, 18>>, <<R(120), Zero, 24, 30>>, <<R(7), Zero, 1, Absent>>}

NoLoan == <<Zero, R(5), 12, Absent>>

Loans == PowLoans \cup OtherLoans \cup {NoLoan}

WithLoan(inputs, loan) ==
  [inputs EXCEPT !.loanAmount = loan[1], !.loanRate = loan[2], !.loanTerm = loan[3],
                 !.remainingLoanTerm = loan[4]]

RateArrays == {<<R(100)>>, <<R(10), R(5), R(3)>>, <<>>, <<R(-50), Zero>>}

LimitArrays == {<<R(99)>>, <<R(100), R(10)>>, <<R(10), R(20), R(101)>>, <<>>}

\* inputs of populateMonthlyCosts: every loan, with and without inflation,
\* rent, recurring costs and interest deduction
CostInputs ==
  {[WithLoan(BaseInputs, loan) EXCEPT !.inflationRate = infl, !.monthlyRent = rent,
                                      !.annualRentCosts = arc, !.annualInsurance = ins,
                                      !.mortgageInterestDeduction = ded] :
     loan \in Loans, infl \in {Zero, R(100)}, rent \in {Zero, One},
     arc \in {Zero, One}, ins \in {Zero, R(12)}, ded \in {Zero, R(50)}}

\* inputs of getEffectiveLoanValues: every loan, refinanced or not, with and
\* without a balance to pay off and closing costs
LoanInputs ==
  {[WithLoan(BaseInputs, loan) EXCEPT !.includeRefinance = refi,
                                      !.payoffBalance = payoffBalance,
                                      !.closingCosts = closingCosts] :
     loan \in Loans \cup {<<R(-5), R(5), 12, 6>>}, refi \in BOOLEAN,
     payoffBalance \in {Undefined, R(3), R(5000)},
     closingCosts \in {Undefined, R(2)}}

YearsSet == 1..MaxProjectionYears

\* inputs of calculate, scenario by scenario
BuyVsRentInputs ==
  {[BaseInputs EXCEPT !.appreciationRate = rates, !.taxFreeLimits = limits,
                      !.includeSelling = sell, !.projectionYears = years,
                      !.agentCommission = R(5), !.stagingCosts = R(10),
                      !.inflationRate = R(100), !.rentDeposit = R(4)] :
     rates \in RateArrays, limits \in LimitArrays, sell \in BOOLEAN, years \in YearsSet}
  \cup
  {[WithLoan(BaseInputs, loan) EXCEPT !.includeSelling = sell, !.projectionYears = years,
                                      !.annualInsurance = R(12),
                                      !.mortgageInterestDeduction = ded,
                                      !.purchasePrice = RAdd(loan[1], R(20))] :
     loan \in OtherLoans \cup {NoLoan}, sell \in BOOLEAN, years \in YearsSet,
     ded \in {Zero, R(50)}}
  \cup
  {[WithLoan(BaseInputs, loan) EXCEPT !.investmentReturnRate = R(1200),
                                      !.purchasePrice = RAdd(loan[1], R(20)),
                                      !.rentDeposit = R(4), !.monthlyRent = rent] :
     loan \in PowLoans, rent \in {Zero, One}}

SellVsKeepInputs ==
  {[WithLoan(BaseInputs, loan) EXCEPT !.scenario = "sell_vs_keep",
                                      !.currentMarketValue = cmv,
                                      !.includeRefinance = refi,
                                      !.payoffBalance = R(4000), !.closingCosts = cc,
                                      !.includeRentingSell = rs,
                                      !.annualIncome = income,
                                      !.taxFreeLimits = <<R(10), R(20), R(101)>>,
                                      !.projectionYears = MaxProjectionYears] :
     loan \in {NoLoan, <<R(4095), R(1200), 12, Absent>>, <<R(4095), R(1200), 12, 5>>},
     cmv \in {Undefined, R(150)}, refi \in BOOLEAN, cc \in {Undefined, R(100)},
     rs \in BOOLEAN, income \in {Zero, R(24)}}
  \cup
  {[WithLoan(BaseInputs, loan) EXCEPT !.scenario = "sell_vs_keep",
                                      !.investmentReturnRate = R(-1200),
                                      !.includeRefinance = refi,
                                      !.payoffBalance = R(3), !.annualIncome = R(24),
                                      !.projectionYears = MaxProjectionYears] :
     loan \in {NoLoan, <<R(100), Zero, 7, Absent>>}, refi \in BOOLEAN}

\* loans and upfront payments of the payoff_vs_invest inputs
PayoffLoans ==
  {NoLoan, <<R(4095), R(1200), 12, Absent>>, <<R(100), Zero, 7, Absent>>,
   <<R(31), R(1200), 5, Absent>>, <<R(120), Zero, 24, 18>>}

PayoffDeals ==
  {d \in PayoffLoans \X {Undefined, R(10), R(5000)} :
     d[2] = R(10) => d[1][1] # R(4095)}

PayoffVsInvestInputs ==
  {[WithLoan(BaseInputs, d[1]) EXCEPT !.scenario = "payoff_vs_invest",
                                      !.extraMonthlyPayment = extra,
                                      !.extraUpfrontPayment = d[2],
                                      !.recalculatePayment = recalc,
                                      !.projectionYears = years] :
     d \in PayoffDeals, extra \in {Undefined, One}, recalc \in BOOLEAN, years \in YearsSet}
  \cup
  {[WithLoan(BaseInputs, loan) EXCEPT !.scenario = "payoff_vs_invest",
                                      !.extraMonthlyPayment = extra,
                                      !.investmentReturnRate = R(-1200)] :
     loan \in {<<R(100), Zero, 7, Absent>>, <<R(31), R(1200), 5, Absent>>},
     extra \in {Undefined, One}}

\* inputs with selling costs and the includeSelling flag unset, in the
\* scenarios that have no form field for it
SellingToggleInputs ==
  {[WithLoan(BaseInputs, loan) EXCEPT !.scenario = sc, !.includeSelling = FALSE,
                                      !.agentCommission = R(5), !.stagingCosts = R(10),
                                      !.purchasePrice = R(200)] :
     sc \in {"sell_vs_keep", "payoff_vs_invest"},
     loan \in {NoLoan, <<R(100), Zero, 7, Absent>>}}

CalcInputs ==
  BuyVsRentInputs \cup SellVsKeepInputs \cup PayoffVsInvestInputs \cup SellingToggleInputs

\* cash-flow sequences, return rates and cash-outs of direct tracker calls
RECURSIVE FlowsOfLen(_)
FlowsOfLen(n) ==
  IF n = 0 THEN {<<>>}
  ELSE {Append(f, c) : f \in FlowsOfLen(n - 1), c \in {R(-2), Zero, One, R(3)}}

CashFlows == UNION {FlowsOfLen(n) : n \in 1..MaxFlowLen}

ReturnRates == {R(-2400), R(-1200), Zero, R(600), R(1200)}

CashOuts == {R(-1), Zero, R(2)}

\* arguments of direct calculateAssetValue and calculateSaleProceeds calls
AssetMonths == {0, 6, 12, 24, 30, 36, 360}

SaleMonths == {0, 12, 24, 48}

SaleInputs ==
  {[WithLoan(BaseInputs, loan) EXCEPT !.scenario = sc, !.appreciationRate = rates,
                                      !.taxFreeLimits = limits, !.inflationRate = R(100),
                                      !.stagingCosts = staging, !.agentCommission = comm] :
     sc \in {"buy_vs_rent", "sell_vs_keep"}, rates \in {<<R(100)>>, <<R(10), R(5), R(3)>>},
     limits \in LimitArrays, staging \in {Zero, One}, comm \in {Zero, R(5)},
     loan \in {NoLoan, <<R(120), Zero, 24, Absent>>}}

\* arguments of direct calculateRentingNetWorth calls: horizons of up to
\* MaxRentingMonths months and of a year
MaxRentingMonths == 3

RentingMonths == 0..MaxRentingMonths \cup {12}

RentingInputs ==
  {[WithLoan(BaseInputs, loan) EXCEPT !.investmentReturnRate = rate,
                                      !.purchasePrice = RAdd(loan[1], R(20)),
                                      !.rentDeposit = deposit, !.monthlyRent = rent] :
     loan \in {NoLoan, <<R(7), R(1200), 3, Absent>>, <<R(100), Zero, 7, Absent>>},
     rate \in {Zero, R(1200), R(-600)}, deposit \in {Zero, R(4)}, rent \in {Zero, One}}

----------------------------------------------------------------------------
(* The engine as a state machine: a caller (the form's handleCalculate, a  *)
(* test) calls one of the exported functions with some arguments and gets  *)
(* its result.  call is the call being served, ret its outcome: status     *)
(* "returned" with the value, or "threw"; the engine has no throw          *)
(* statement, so every call returns.  hist remembers the first call of     *)
(* calculate, its result and the number of calls made since, for the       *)
(* comparison of repeated calls.                                           *)

Idle == [op |-> "idle", args |-> <<>>]

NoReturn == [status |-> "none", value |-> <<>>]

Returned(v) == [status |-> "returned", value |-> v]

NoHist == [set |-> FALSE, inputs |-> <<>>, results |-> <<>>, calls |-> 0]

Init ==
  /\ call = Idle
  /\ ret = NoReturn
  /\ hist = NoHist

CallCalculate ==
  /\ call.op = "idle"
  /\ \E inputs \in CalcInputs :
       /\ call' = [op |-> "calculate", args |-> <<inputs>>]
       /\ ret' = Returned(calculate(inputs))
  /\ UNCHANGED hist

CallPopulateMonthlyCosts ==
  /\ call.op = "idle"
  /\ \E inputs \in CostInputs :
       /\ call' = [op |-> "populateMonthlyCosts", args |-> <<inputs>>]
       /\ ret' = Returned(populateMonthlyCosts(inputs))
  /\ UNCHANGED hist

CallGetEffectiveLoanValues ==
  /\ call.op = "idle"
  /\ \E inputs \in LoanInputs :
       /\ call' = [op |-> "getEffectiveLoanValues", args |-> <<inputs>>]
       /\ ret' = Returned(getEffectiveLoanValues(inputs))
  /\ UNCHANGED hist

CallGetPeriods ==
  /\ call.op = "idle"
  /\ \E loanDuration \in 0..MaxLoanDuration, projectionYears \in 0..MaxProjectionYears :
       /\ call' = [op |-> "getPeriods", args |-> <<loanDuration, projectionYears>>]
       /\ ret' = Returned(getPeriods(loanDuration, projectionYears))
  /\ UNCHANGED hist

CallKeepInvestmentTracking ==
  /\ call.op = "idle"
  /\ \E flows \in CashFlows, rate \in ReturnRates, cashOut \in CashOuts :
       /\ call' = [op |-> "calculateKeepInvestmentTracking",
                   args |-> <<flows, rate, Len(flows), cashOut>>]
       /\ ret' = Returned(calculateKeepInvestmentTracking(flows, rate, Len(flows), cashOut))
  /\ UNCHANGED hist

CallAssetValue ==
  /\ call.op = "idle"
  /\ \E startingPrice \in {R(100000), R(100)}, months \in AssetMonths,
        rates \in RateArrays :
       /\ call' = [op |-> "calculateAssetValue", args |-> <<startingPrice, months, rates>>]
       /\ ret' = Returned(AssetValueFactored(startingPrice, months, rates))
  /\ UNCHANGED hist

CallSaleProceeds ==
  /\ call.op = "idle"
  /\ \E inputs \in SaleInputs, months \in SaleMonths, includeSelling \in BOOLEAN :
       /\ call' = [op |-> "calculateSaleProceeds",
                   args |-> <<inputs, months, includeSelling>>]
       /\ ret' = Returned(calculateSaleProceeds(inputs, months,
                            populateMonthlyCosts(inputs).remainingLoanBalance,
                            getEffectiveLoanValues(inputs).effectiveLoanAmount,
                            includeSelling))
  /\ UNCHANGED hist

CallRentingNetWorth ==
  /\ call.op = "idle"
  /\ \E inputs \in RentingInputs, months \in RentingMonths :
       /\ call' = [op |-> "calculateRentingNetWorth", args |-> <<inputs, months>>]
       /\ ret' = Returned(calculateRentingNetWorth(inputs, months,
                            populateMonthlyCosts(inputs).monthlyBuyingCosts,
                            populateMonthlyCosts(inputs).monthlyRentingCosts))
  /\ UNCHANGED hist

\* the caller takes the result; the engine keeps nothing
Return ==
  /\ call.op # "idle"
  /\ call' = Idle
  /\ ret' = NoReturn
  /\ UNCHANGED hist

Next ==
  \/ CallGetPeriods
  \/ CallGetEffectiveLoanValues
  \/ CallAssetValue
  \/ CallKeepInvestmentTracking
  \/ CallPopulateMonthlyCosts
  \/ CallSaleProceeds
  \/ CallRentingNetWorth
  \/ CallCalculate
  \/ Return

Spec == Init /\ [][Next]_vars

----------------------------------------------------------------------------
(* Repeated calls: the first call of calculate is remembered, and up to    *)
(* MaxCalls further calls of calculate, populateMonthlyCosts and           *)
(* getPeriods follow it in any order.                                      *)

MaxCalls == 2

Scenarios == {"buy_vs_rent", "sell_vs_keep", "payoff_vs_invest"}

RepeatInputs ==
  {[WithLoan(BaseInputs, loan) EXCEPT !.scenario = sc,
                                      !.mortgageInterestDeduction = ded] :
     sc \in Scenarios, loan \in {NoLoan, <<R(4095), R(1200), 12, Absent>>},
     ded \in {Zero, R(50)}}

\* hist after one more call
Seen(h) == IF h.set THEN [h EXCEPT !.calls = h.calls + 1] ELSE h

RepeatCalculate ==
  /\ call.op = "idle"
  /\ hist.calls < MaxCalls
  /\ \E inputs \in RepeatInputs :
       /\ call' = [op |-> "calculate", args |-> <<inputs>>]
       /\ ret' = Returned(calculate(inputs))
       /\ hist' = IF hist.set THEN Seen(hist)
                  ELSE [set |-> TRUE, inputs |-> inputs,
                        results |-> calculate(inputs), calls |-> 0]

RepeatPopulateMonthlyCosts ==
  /\ call.op = "idle"
  /\ hist.calls < MaxCalls
  /\ \E inputs \in RepeatInputs :
       /\ call' = [op |-> "populateMonthlyCosts", args |-> <<inputs>>]
       /\ ret' = Returned(populateMonthlyCosts(inputs))
  /\ hist' = Seen(hist)

RepeatGetPeriods ==
  /\ call.op = "idle"
  /\ hist.calls < MaxCalls
  /\ \E loanDuration \in {0, 12}, projectionYears \in {1, 2} :
       /\ call' = [op |-> "getPeriods", args |-> <<loanDuration, projectionYears>>]
       /\ ret' = Returned(getPeriods(loanDuration, projectionYears))
  /\ hist' = Seen(hist)

NextRepeat ==
  \/ RepeatGetPeriods
  \/ RepeatPopulateMonthlyCosts
  \/ RepeatCalculate
  \/ Return

SpecRepeat == Init /\ [][NextRepeat]_vars

----------------------------------------------------------------------------
(* Properties                                                              *)

\* the input domain of the engine: both per-year arrays have an entry
WellFormed(inputs) ==
  Len(inputs.appreciationRate) >= 1 /\ Len(inputs.taxFreeLimits) >= 1

\* a row of sale proceeds computed from `inputs' for a sale after `months'
\* satisfies the identity of the proceeds and of the selling costs
SaleIdentity(inputs, months, row) ==
  /\ row.totalSellingCosts =
       RAdd(RMul(row.salePrice, Pct(inputs.agentCommission)),
            RMul(inputs.stagingCosts,
                 PowInt(OnePlusPct(inputs.inflationRate), months \div 12)))
  /\ row.netProceeds =
       RSub(RSub(RSub(row.salePrice, row.totalSellingCosts), row.loanPayoff),
            row.taxOnGains)
  /\ WellFormed(inputs) => IsFinite(row.netProceeds)

\* C1: every row that calculateSaleProceeds produces with includeSelling =
\* true, called directly or for calculate's saleProceedsTable, has
\* netProceeds = salePrice - totalSellingCosts - loanPayoff - taxOnGains with
\* totalSellingCosts = salePrice * agentCommission/100 + stagingCosts
\* inflated by the elapsed full years.
NetProceedsIdentity ==
  /\ (call.op = "calculateSaleProceeds" /\ call.args[3])
       => SaleIdentity(call.args[1], call.args[2], ret.value)
  /\ (call.op = "calculate"
        /\ (call.args[1].includeSelling \/ call.args[1].scenario = "sell_vs_keep"))
       => \A k \in DOMAIN ret.value.saleProceedsTable :
            SaleIdentity(call.args[1], ret.value.periods[k].months,
                         ret.value.saleProceedsTable[k])

\* a sale with selling costs, a loan to pay off and a tax on the gains
NetProceedsIdentityWitness ==
  /\ call.op = "calculateSaleProceeds"
  /\ call.args[3]
  /\ call.args[2] >= 12
  /\ RGt(call.args[1].stagingCosts, Zero)
  /\ RGt(call.args[1].agentCommission, Zero)
  /\ RGt(ret.value.loanPayoff, Zero)
  /\ RGt(ret.value.taxOnGains, Zero)

\* C2: in the series calculateKeepInvestmentTracking returns, a month whose
\* recorded net position is <= 0 has cumulative returns not greater than
\* those of the month before (0 before the first month).
DeficitEarnsNothing ==
  call.op = "calculateKeepInvestmentTracking" =>
    \A i \in 0..(call.args[3] - 1) :
      RLe(At(ret.value.monthlyKeepNetPosition, i), Zero) =>
        RLe(At(ret.value.monthlyKeepInvestmentReturns, i),
            IF i = 0 THEN Zero ELSE At(ret.value.monthlyKeepInvestmentReturns, i - 1))

\* a deficit month that follows a month with returns
DeficitEarnsNothingWitness ==
  /\ call.op = "calculateKeepInvestmentTracking"
  /\ \E i \in 1..(call.args[3] - 1) :
       /\ RLt(At(ret.value.monthlyKeepNetPosition, i), Zero)
       /\ RGt(At(ret.value.monthlyKeepInvestmentReturns, i - 1), Zero)
       /\ At(ret.value.monthlyKeepInvestmentReturns, i)
            = At(ret.value.monthlyKeepInvestmentReturns, i - 1)

\* the series of monthly costs in the result of the call being served
HasCosts == call.op \in {"populateMonthlyCosts", "calculate"}

\* C3: for a loan with principal > 0 and an effective term T of 1 to 360
\* months, the payment of getEffectiveLoanValues amortizes the loan: the
\* series of populateMonthlyCosts have cumulativePrincipalPaid[T-1] =
\* effectiveLoanAmount and remainingLoanBalance[T-1] = 0.
AmortizationClosure ==
  HasCosts =>
    LET inputs == call.args[1]
        loan == getEffectiveLoanValues(inputs)
        T == loan.effectiveLoanTerm
    IN (RGt(inputs.loanAmount, Zero) /\ T >= 1 /\ T <= MaxMonths) =>
         /\ At(ret.value.cumulativePrincipalPaid, T - 1) = loan.effectiveLoanAmount
         /\ At(ret.value.remainingLoanBalance, T - 1) = Zero

\* a loan at interest, part of its term elapsed, still owing before its last
\* payment
AmortizationClosureWitness ==
  /\ call.op = "populateMonthlyCosts"
  /\ RGt(call.args[1].loanAmount, Zero)
  /\ RGt(call.args[1].loanRate, Zero)
  /\ call.args[1].remainingLoanTerm # Absent
  /\ call.args[1].remainingLoanTerm >= 2
  /\ call.args[1].remainingLoanTerm < call.args[1].loanTerm
  /\ RGt(At(ret.value.remainingLoanBalance, call.args[1].remainingLoanTerm - 2), Zero)
  /\ At(ret.value.remainingLoanBalance, call.args[1].remainingLoanTerm - 1) = Zero

\* currentRentingCost before the loop (lines 124-125)
StartingRentingCost(inputs) ==
  RAdd(RAdd(inputs.monthlyRent, RDiv(inputs.annualRentCosts, Twelve)),
       RDiv(inputs.otherAnnualCosts, Twelve))

\* monthlyRentingCosts rises from each year boundary to the next
RentRisesYearly(monthlyRentingCosts) ==
  \A k \in 1..((MaxMonths - 1) \div 12) :
    RGt(At(monthlyRentingCosts, 12 * k), At(monthlyRentingCosts, 12 * (k - 1)))

\* C4 as amended: for inflationRate > 0 and a positive starting renting
\* cost, populateMonthlyCosts yields monthlyRentingCosts[12*k] >
\* monthlyRentingCosts[12*(k-1)] for every year boundary k >= 1 of the series.
InflationMonotonicity ==
  (/\ call.op = "populateMonthlyCosts"
   /\ RGt(call.args[1].inflationRate, Zero)
   /\ RGt(StartingRentingCost(call.args[1]), Zero))
    => RentRisesYearly(ret.value.monthlyRentingCosts)

\* C4 as stated: the same for every inflationRate > 0, whatever the
\* starting renting cost.
InflationMonotonicityAnyRent ==
  (call.op = "populateMonthlyCosts" /\ RGt(call.args[1].inflationRate, Zero))
    => RentRisesYearly(ret.value.monthlyRentingCosts)

\* an inflated rent that has risen at the last year boundary
InflationMonotonicityWitness ==
  /\ call.op = "populateMonthlyCosts"
  /\ RGt(call.args[1].inflationRate, Zero)
  /\ RGt(call.args[1].monthlyRent, Zero)
  /\ RGt(At(ret.value.monthlyRentingCosts, 348), At(ret.value.monthlyRentingCosts, 336))

\* the factors 1.10, 1.05 and then 1.03, one per year, for `years' years
ThirtyYearFactors(years) ==
  [y \in 1..years |->
     [rate |-> IF y = 1 THEN R(10) ELSE IF y = 2 THEN R(5) ELSE R(3),
      twelfths |-> 12]]

\* C5 as amended: calculateAssetValue(100000, 360, [10,5,3]) applies the
\* factor 1.10 for year 1, 1.05 for year 2 and 1.03 for each of the years 3
\* to 30, i.e. it returns 100000 * 1.10 * 1.05 * 1.03^28.
AssetValueExample ==
  (/\ call.op = "calculateAssetValue"
   /\ call.args = <<R(100000), 360, <<R(10), R(5), R(3)>> >>)
    => /\ ret.value.startingPrice = R(100000)
       /\ ret.value.factors = ThirtyYearFactors(30)

\* C5 as stated: calculateAssetValue(100000, 30, [10,5,3]) applies those
\* thirty yearly factors.
AssetValueExampleThirty ==
  (/\ call.op = "calculateAssetValue"
   /\ call.args = <<R(100000), 30, <<R(10), R(5), R(3)>> >>)
    => /\ ret.value.startingPrice = R(100000)
       /\ ret.value.factors = ThirtyYearFactors(30)

\* the call of the example has returned
AssetValueExampleWitness ==
  /\ call.op = "calculateAssetValue"
  /\ call.args = <<R(100000), 360, <<R(10), R(5), R(3)>> >>
  /\ ret.status = "returned"
  /\ Len(ret.value.factors) = 30

\* the tax of a sale row when the limit is taxFreeLimits[index]
TaxWithLimitAt(inputs, row, index) ==
  RMul(RMax(Zero, RSub(row.capitalGains, OrElse(At(inputs.taxFreeLimits, index), Zero))),
       Pct(inputs.capitalGainsTax))

\* a direct call of calculateSaleProceeds with selling costs and taxes
SellingCall ==
  call.op = "calculateSaleProceeds" /\ call.args[3] /\ WellFormed(call.args[1])

\* C6 as amended: calculateSaleProceeds picks the tax-free limit by sale
\* year, the first year being the year of index 0: for a sale after y =
\* floor(months/12) elapsed years it uses
\* taxFreeLimits[max(0, min(y-1, taxFreeLimits.length-1))], and every year
\* beyond the array length uses the last entry.
TaxFreeLimitBySaleYear ==
  SellingCall =>
    LET inputs == call.args[1]
        y == call.args[2] \div 12
        last == Len(inputs.taxFreeLimits) - 1
    IN /\ ret.value.taxOnGains
            = TaxWithLimitAt(inputs, ret.value,
                             IF y - 1 < 0 THEN 0 ELSE IF y - 1 < last THEN y - 1 ELSE last)
       /\ y > last => ret.value.taxOnGains = TaxWithLimitAt(inputs, ret.value, last)

\* C6 as stated: for a sale after y elapsed years it uses
\* taxFreeLimits[min(y, taxFreeLimits.length-1)].
TaxFreeLimitByElapsedYears ==
  SellingCall =>
    LET inputs == call.args[1]
        y == call.args[2] \div 12
        last == Len(inputs.taxFreeLimits) - 1
    IN ret.value.taxOnGains
         = TaxWithLimitAt(inputs, ret.value, IF y < last THEN y ELSE last)

\* a taxed sale in the second of three years with different limits
TaxFreeLimitBySaleYearWitness ==
  /\ SellingCall
  /\ call.args[2] = 24
  /\ Len(call.args[1].taxFreeLimits) = 3
  /\ RGt(ret.value.taxOnGains, Zero)
  /\ TaxWithLimitAt(call.args[1], ret.value, 1) # TaxWithLimitAt(call.args[1], ret.value, 2)

\* C7: getPeriods emits, besides the rows of the years 0..projectionYears, a
\* row at the loan's payoff month whenever that month lies inside the
\* horizon and is not a multiple of 12.
LoanTermMarkerRow ==
  (/\ call.op = "getPeriods"
   /\ call.args[1] > 0
   /\ call.args[1] % 12 # 0
   /\ call.args[1] <= 12 * call.args[2])
    => \E k \in DOMAIN ret.value : ret.value[k].months = call.args[1]

\* the limit that applies to the sale of the call being served
ApplicableLimit ==
  OrElse(At(call.args[1].taxFreeLimits,
            TaxFreeLimitIndex(call.args[2] \div 12, Len(call.args[1].taxFreeLimits))),
         Zero)

\* C8: in calculateSaleProceeds with includeSelling = true, capitalGains =
\* salePrice - purchasePrice - totalSellingCosts; gains equal to the
\* applicable tax-free limit give taxOnGains = 0, gains that exceed it by
\* exactly 1 give taxOnGains = capitalGainsTax/100, and gains below it never
\* give a negative taxOnGains.
TaxFreeLimitBoundary ==
  SellingCall =>
    LET row == ret.value
        over == RSub(row.capitalGains, ApplicableLimit)
    IN /\ row.capitalGains
            = RSub(RSub(row.salePrice, call.args[1].purchasePrice), row.totalSellingCosts)
       /\ over = Zero => row.taxOnGains = Zero
       /\ over = One => row.taxOnGains = Pct(call.args[1].capitalGainsTax)
       /\ RLt(over, Zero) => RGe(row.taxOnGains, Zero)

\* a sale whose gains exceed a positive limit by exactly 1
TaxFreeLimitBoundaryWitness ==
  /\ SellingCall
  /\ RGt(ApplicableLimit, Zero)
  /\ ret.value.capitalGains = RAdd(ApplicableLimit, One)
  /\ ret.value.taxOnGains = Q(1, 5)

FailsFastOnEmptyArrays ==
  (call.op = "calculate" /\ ~WellFormed(call.args[1])) => ret.status = "threw"

\* startingPrice multiplied by 1 + rates[min(y, rates.length-1)]/100 for
\* each y in 0..n-1
RECURSIVE YearlyCompound(_, _, _)
YearlyCompound(startingPrice, rates, n) ==
  IF n = 0 THEN startingPrice
  ELSE RMul(YearlyCompound(startingPrice, rates, n - 1),
            RAdd(One, RDiv(At(rates, IF n - 1 < Len(rates) - 1 THEN n - 1
                                     ELSE Len(rates) - 1),
                           Hundred)))

\* C11: calculateAssetValue compounds year by year with the last rate
\* persisting: for months = 12*n the multiplications it performs are one by
\* 1 + rates[min(y, rates.length-1)]/100 for each y in 0..n-1 and no other
\* (none for months = 0, the single factor 1 + r/100 for 12 months and [r]),
\* and the assetValue of every comparisonTable row of calculate is
\* purchasePrice multiplied by those factors.
YearByYearCompounding ==
  /\ (call.op = "calculateAssetValue" /\ call.args[2] % 12 = 0) =>
       LET rates == call.args[3]
       IN /\ ret.value.startingPrice = call.args[1]
          /\ ret.value.factors =
               [y \in 1..(call.args[2] \div 12) |->
                  [rate |-> At(rates, IF y - 1 < Len(rates) - 1 THEN y - 1
                                      ELSE Len(rates) - 1),
                   twelfths |-> 12]]
          /\ call.args[2] = 0 => ret.value.factors = <<>>
          /\ (call.args[2] = 12 /\ Len(rates) = 1) =>
               ret.value.factors = <<[rate |-> rates[1], twelfths |-> 12]>>
  /\ (call.op = "calculate" /\ call.args[1].scenario = "buy_vs_rent") =>
       \A k \in DOMAIN ret.value.comparisonTable :
         ret.value.comparisonTable[k].assetValue
           = YearlyCompound(call.args[1].purchasePrice, call.args[1].appreciationRate,
                            ret.value.periods[k].months \div 12)

\* a single rate of 100% applied in two successive years: the price has
\* quadrupled after 24 months
YearByYearCompoundingWitness ==
  /\ call.op = "calculate"
  /\ call.args[1].scenario = "buy_vs_rent"
  /\ call.args[1].appreciationRate = <<R(100)>>
  /\ \E k \in DOMAIN ret.value.comparisonTable :
       /\ ret.value.periods[k].months = 24
       /\ ret.value.comparisonTable[k].assetValue
            = RMul(R(4), call.args[1].purchasePrice)

\* C12: every comparisonTable row has difference = rentingNetWorth -
\* buyingNetWorth; every sellVsKeepTable row has difference = keepNetWorth -
\* sellNetWorth; every payoffVsInvestTable row has payoffWealth =
\* payoffInvestmentValue - payoffLoanBalance, investWealth =
\* investInvestmentValue - investLoanBalance and difference = payoffWealth -
\* investWealth.
DifferenceSignConvention ==
  call.op = "calculate" =>
    /\ \A k \in DOMAIN ret.value.comparisonTable :
         LET row == ret.value.comparisonTable[k]
         IN row.difference = RSub(row.rentingNetWorth, row.buyingNetWorth)
    /\ \A k \in DOMAIN ret.value.sellVsKeepTable :
         LET row == ret.value.sellVsKeepTable[k]
         IN row.difference = RSub(row.keepNetWorth, row.sellNetWorth)
    /\ \A k \in DOMAIN ret.value.payoffVsInvestTable :
         LET row == ret.value.payoffVsInvestTable[k]
         IN /\ row.payoffWealth = RSub(row.payoffInvestmentValue, row.payoffLoanBalance)
            /\ row.investWealth = RSub(row.investInvestmentValue, row.investLoanBalance)
            /\ row.difference = RSub(row.payoffWealth, row.investWealth)

\* a comparison row where renting wins: the renter's net worth is the
\* greater one and the difference is positive
DifferenceSignConventionWitness ==
  /\ call.op = "calculate"
  /\ call.args[1].scenario = "buy_vs_rent"
  /\ \E k \in DOMAIN ret.value.comparisonTable :
       LET row == ret.value.comparisonTable[k]
       IN /\ RGt(row.rentingNetWorth, row.buyingNetWorth)
          /\ RGt(row.buyingNetWorth, Zero)
          /\ RGt(row.difference, Zero)

\* the refinance branch of getEffectiveLoanValues is taken
Refinanced(inputs) == RGt(inputs.loanAmount, Zero) /\ inputs.includeRefinance

\* C13: when loanAmount > 0 and includeRefinance is set,
\* getEffectiveLoanValues returns effectiveLoanAmount = loanAmount and
\* effectiveLoanTerm = loanTerm whatever remainingLoanTerm is, and
\* refinanceCashOut = loanAmount - payoffBalance - closingCosts (an absent
\* payoffBalance or closingCosts counting as 0), negative when the loan does
\* not cover them; in every other branch refinanceCashOut = 0.
RefinanceBranch ==
  call.op = "getEffectiveLoanValues" =>
    LET inputs == call.args[1]
        payoffBalance == IF inputs.payoffBalance = Undefined THEN Zero
                         ELSE inputs.payoffBalance
        closingCosts == IF inputs.closingCosts = Undefined THEN Zero
                        ELSE inputs.closingCosts
    IN /\ Refinanced(inputs) =>
            /\ ret.value.effectiveLoanAmount = inputs.loanAmount
            /\ ret.value.effectiveLoanTerm = inputs.loanTerm
            /\ ret.value.refinanceCashOut
                 = RSub(RSub(inputs.loanAmount, payoffBalance), closingCosts)
       /\ ~Refinanced(inputs) => ret.value.refinanceCashOut = Zero

\* a refinanced loan with part of its term elapsed that does not cover the
\* balance to pay off: the cash-out is negative
RefinanceBranchWitness ==
  /\ call.op = "getEffectiveLoanValues"
  /\ Refinanced(call.args[1])
  /\ call.args[1].remainingLoanTerm # Absent
  /\ call.args[1].remainingLoanTerm < call.args[1].loanTerm
  /\ ret.value.effectiveLoanTerm = call.args[1].loanTerm
  /\ RLt(ret.value.refinanceCashOut, Zero)

\* n payments of st.payment made one after the other, each reducing the
\* balance by payment - balance * monthlyRate
RECURSIVE BalanceRun(_, _)
BalanceRun(n, st) ==
  IF st.i < n - 1 THEN BalanceRun(n, BalanceRun((st.i + n) \div 2, st))
  ELSE IF st.i < n
  THEN [st EXCEPT !.i = st.i + 1,
                  !.balance = RSub(st.balance,
                                   RSub(st.payment, RMul(st.balance, st.monthlyRate)))]
  ELSE st

\* the balance left of `balance' after n payments of `payment'
BalanceAfter(balance, payment, monthlyRate, n) ==
  BalanceRun(n, [i |-> 0, balance |-> balance, payment |-> payment,
                 monthlyRate |-> monthlyRate]).balance

\* C14: for a loan (loanAmount > 0) that is not refinanced, when
\* 0 < remainingLoanTerm < loanTerm, getEffectiveLoanValues returns
\* effectiveLoanTerm = remainingLoanTerm and effectiveLoanAmount = the balance
\* left after loanTerm - remainingLoanTerm payments of the original level
\* payment against the original loanAmount; when remainingLoanTerm is absent
\* or >= loanTerm, the original amount, term and payment are returned.
ElapsedTimeBranch ==
  (/\ call.op = "getEffectiveLoanValues"
   /\ RGt(call.args[1].loanAmount, Zero)
   /\ ~call.args[1].includeRefinance) =>
    LET inputs == call.args[1]
        monthlyRate == RDiv(RDiv(inputs.loanRate, Hundred), Twelve)
        originalPayment ==
          calculateMonthlyPayment(inputs.loanAmount, monthlyRate, inputs.loanTerm)
    IN /\ (/\ inputs.remainingLoanTerm # Absent
           /\ 0 < inputs.remainingLoanTerm
           /\ inputs.remainingLoanTerm < inputs.loanTerm) =>
            /\ ret.value.effectiveLoanTerm = inputs.remainingLoanTerm
            /\ ret.value.effectiveLoanAmount
                 = BalanceAfter(inputs.loanAmount, originalPayment, monthlyRate,
                                inputs.loanTerm - inputs.remainingLoanTerm)
       /\ (\/ inputs.remainingLoanTerm = Absent
           \/ inputs.remainingLoanTerm >= inputs.loanTerm) =>
            /\ ret.value.effectiveLoanAmount = inputs.loanAmount
            /\ ret.value.effectiveLoanTerm = inputs.loanTerm
            /\ ret.value.monthlyLoanPayment = originalPayment

\* a loan at interest seven payments into its term: part of it is repaid
ElapsedTimeBranchWitness ==
  /\ call.op = "getEffectiveLoanValues"
  /\ ~call.args[1].includeRefinance
  /\ RGt(call.args[1].loanRate, Zero)
  /\ call.args[1].remainingLoanTerm # Absent
  /\ call.args[1].remainingLoanTerm > 0
  /\ call.args[1].loanTerm - call.args[1].remainingLoanTerm = 7
  /\ ret.value.effectiveLoanTerm = call.args[1].remainingLoanTerm
  /\ RGt(ret.value.effectiveLoanAmount, Zero)
  /\ RLt(ret.value.effectiveLoanAmount, call.args[1].loanAmount)

\* the monthly recurring cost before inflation: insurance and taxes less
\* income, a twelfth of the year's each
StartingRecurringCost(inputs) ==
  RSub(RDiv(RAdd(inputs.annualInsurance, inputs.annualTaxes), Twelve),
       RDiv(inputs.annualIncome, Twelve))

\* C15: when loanAmount <= 0, getEffectiveLoanValues returns 0 for
\* effectiveLoanAmount, effectiveLoanTerm, monthlyLoanPayment and
\* refinanceCashOut, also when includeRefinance is set, and the series of
\* populateMonthlyCosts have remainingLoanBalance, cumulativePrincipalPaid and
\* cumulativeInterestPaid at 0 in all 360 months, monthlyBuyingCosts[i] being
\* the recurring cost inflated once per full year elapsed.
NoLoanCase ==
  /\ (call.op = "getEffectiveLoanValues" /\ RLe(call.args[1].loanAmount, Zero)) =>
       /\ ret.value.effectiveLoanAmount = Zero
       /\ ret.value.effectiveLoanTerm = 0
       /\ ret.value.monthlyLoanPayment = Zero
       /\ ret.value.refinanceCashOut = Zero
  /\ (HasCosts /\ RLe(call.args[1].loanAmount, Zero)) =>
       /\ Len(ret.value.remainingLoanBalance) = MaxMonths
       /\ \A i \in 0..(MaxMonths - 1) :
            /\ At(ret.value.remainingLoanBalance, i) = Zero
            /\ At(ret.value.cumulativePrincipalPaid, i) = Zero
            /\ At(ret.value.cumulativeInterestPaid, i) = Zero
            /\ At(ret.value.monthlyBuyingCosts, i)
                 = RMul(StartingRecurringCost(call.args[1]),
                        PowInt(RAdd(One, RDiv(call.args[1].inflationRate, Hundred)),
                               i \div 12))

\* no loan, a recurring cost and inflation: the buying cost of the last year
\* is above that of the first, and nothing is owed or paid
NoLoanCaseWitness ==
  /\ call.op = "populateMonthlyCosts"
  /\ call.args[1].loanAmount = Zero
  /\ RGt(call.args[1].inflationRate, Zero)
  /\ RGt(At(ret.value.monthlyBuyingCosts, 0), Zero)
  /\ RGt(At(ret.value.monthlyBuyingCosts, 359), At(ret.value.monthlyBuyingCosts, 0))
  /\ At(ret.value.cumulativeInterestPaid, 359) = Zero

\* the loan payoff of a sale after `months' months, read from the series
\* remainingLoanBalance of 360 months: the effective loan amount at month 0,
\* else the entry of index min(months - 1, 359)
PayoffLookup(months, remainingLoanBalance, effectiveLoanAmount) ==
  IF months = 0 THEN effectiveLoanAmount
  ELSE remainingLoanBalance[(IF months - 1 < 359 THEN months - 1 ELSE 359) + 1]

\* C16: the loan payoff lookup of calculateSaleProceeds has no off-by-one:
\* called with the series of populateMonthlyCosts and the effective loan
\* amount, at months = 0 loanPayoff = effectiveLoanAmount, and for months =
\* m > 0 loanPayoff = remainingLoanBalance[min(m-1, 359)], an index that is
\* never below 0 and whose entry is the balance after the m-th payment (0
\* once the term is over).
LoanPayoffLookup ==
  /\ call.op = "calculateSaleProceeds" =>
       LET inputs == call.args[1]
           m == call.args[2]
           loan == getEffectiveLoanValues(inputs)
       IN /\ ret.value.loanPayoff
               = PayoffLookup(m, populateMonthlyCosts(inputs).remainingLoanBalance,
                              loan.effectiveLoanAmount)
          /\ m > 0 =>
               /\ (IF m - 1 < 359 THEN m - 1 ELSE 359) >= 0
               /\ ret.value.loanPayoff
                    = IF m <= loan.effectiveLoanTerm
                      THEN BalanceAfter(loan.effectiveLoanAmount, loan.monthlyLoanPayment,
                                        RDiv(RDiv(inputs.loanRate, Hundred), Twelve), m)
                      ELSE Zero
  /\ call.op = "calculate" =>
       \A k \in DOMAIN ret.value.saleProceedsTable :
         ret.value.saleProceedsTable[k].loanPayoff
           = PayoffLookup(ret.value.periods[k].months, ret.value.remainingLoanBalance,
                          getEffectiveLoanValues(call.args[1]).effectiveLoanAmount)

\* a sale after 12 months of a loan that runs longer: the payoff is the
\* balance after the 12th payment, above the balance after the 13th
LoanPayoffLookupWitness ==
  /\ call.op = "calculateSaleProceeds"
  /\ call.args[2] = 12
  /\ RGt(ret.value.loanPayoff, Zero)
  /\ RLt(ret.value.loanPayoff, call.args[1].loanAmount)
  /\ RGt(ret.value.loanPayoff,
         At(populateMonthlyCosts(call.args[1]).remainingLoanBalance, 12))

\* a row of the saleProceedsTable holds the six values of `proceeds'
SameProceeds(row, proceeds) ==
  /\ row.salePrice = proceeds.salePrice
  /\ row.totalSellingCosts = proceeds.totalSellingCosts
  /\ row.loanPayoff = proceeds.loanPayoff
  /\ row.capitalGains = proceeds.capitalGains
  /\ row.taxOnGains = proceeds.taxOnGains
  /\ row.netProceeds = proceeds.netProceeds

\* a call of calculateSaleProceeds with includeSelling = false returns
\* netProceeds = salePrice - loanPayoff and 0 for totalSellingCosts,
\* capitalGains and taxOnGains
SaleWithoutSellingCosts ==
  (call.op = "calculateSaleProceeds" /\ ~call.args[3]) =>
    /\ ret.value.netProceeds = RSub(ret.value.salePrice, ret.value.loanPayoff)
    /\ ret.value.totalSellingCosts = Zero
    /\ ret.value.capitalGains = Zero
    /\ ret.value.taxOnGains = Zero

\* every row of calculate's saleProceedsTable is what calculateSaleProceeds
\* returns for includeSelling = false when `skips' holds of the inputs, and
\* for includeSelling = true otherwise
SaleTableSkipsSellingWhen(skips) ==
  call.op = "calculate" =>
    \A k \in DOMAIN ret.value.saleProceedsTable :
      SameProceeds(ret.value.saleProceedsTable[k],
                   calculateSaleProceeds(call.args[1], ret.value.periods[k].months,
                     ret.value.remainingLoanBalance,
                     getEffectiveLoanValues(call.args[1]).effectiveLoanAmount,
                     ~skips))

\* C17 as amended: calculateSaleProceeds called with includeSelling = false
\* returns netProceeds = salePrice - loanPayoff with totalSellingCosts = 0,
\* capitalGains = 0 and taxOnGains = 0; calculate passes includeSelling =
\* false only for inputs of a scenario other than sell_vs_keep (buy_vs_rent
\* or payoff_vs_invest) with includeSelling unset, and in sell_vs_keep the
\* saleProceedsTable always includes selling costs and tax whatever
\* inputs.includeSelling is.
SellingSkippedOutsideSellVsKeep ==
  /\ SaleWithoutSellingCosts
  /\ SaleTableSkipsSellingWhen(call.args[1].scenario # "sell_vs_keep"
                                 /\ ~call.args[1].includeSelling)

\* C17 as stated: calculate passes includeSelling = false only for
\* buy_vs_rent inputs with includeSelling unset.
SellingSkippedOnlyInBuyVsRent ==
  /\ SaleWithoutSellingCosts
  /\ SaleTableSkipsSellingWhen(call.args[1].scenario = "buy_vs_rent"
                                 /\ ~call.args[1].includeSelling)

\* a payoff_vs_invest run with includeSelling unset and an agent commission:
\* its sale rows carry no selling costs
SellingSkippedOutsideSellVsKeepWitness ==
  /\ call.op = "calculate"
  /\ call.args[1].scenario = "payoff_vs_invest"
  /\ ~call.args[1].includeSelling
  /\ RGt(call.args[1].agentCommission, Zero)
  /\ \E k \in DOMAIN ret.value.saleProceedsTable :
       /\ ret.value.periods[k].months > 0
       /\ RGt(ret.value.saleProceedsTable[k].salePrice, Zero)
       /\ ret.value.saleProceedsTable[k].totalSellingCosts = Zero
       /\ ret.value.saleProceedsTable[k].netProceeds
            = RSub(ret.value.saleProceedsTable[k].salePrice,
                   ret.value.saleProceedsTable[k].loanPayoff)

\* the net position of the investment tracker of a calculate run at the
\* period of `months' months: the position it was started with (line 187,
\* the refinance cash-out passed on line 343) before the first month, the
\* position recorded for the month before otherwise
TrackerPositionAt(inputs, results, months) ==
  IF months = 0 THEN getEffectiveLoanValues(inputs).refinanceCashOut
  ELSE At(results.monthlyKeepNetPosition, MinInt(months - 1, MaxMonths - 1))

\* C18: in sell_vs_keep, every sellVsKeepTable row has keepNetWorth =
\* keepSaleProceeds + keepNetPosition, where keepSaleProceeds is the
\* netProceeds of the saleProceedsTable row of the same period and
\* keepNetPosition is the investment tracker's net position at that period.
KeepNetWorthComposition ==
  (call.op = "calculate" /\ call.args[1].scenario = "sell_vs_keep") =>
    \A k \in DOMAIN ret.value.sellVsKeepTable :
      LET row == ret.value.sellVsKeepTable[k]
      IN /\ row.keepNetWorth = RAdd(row.keepSaleProceeds, row.keepNetPosition)
         /\ row.keepSaleProceeds = ret.value.saleProceedsTable[k].netProceeds
         /\ row.keepNetPosition
              = TrackerPositionAt(call.args[1], ret.value, ret.value.periods[k].months)

\* the loan term falls on a year boundary inside the horizon
TermOnYearBoundary(loanDuration, projectionYears) ==
  loanDuration > 0 /\ loanDuration % 12 = 0 /\ loanDuration <= 12 * projectionYears

\* C19: the list getPeriods returns is strictly increasing in months, so no
\* two rows have the same months value, and when the loan term falls on a
\* year boundary inside the horizon, the one row of that year carries the
\* loan-term label (X, the year right-aligned in three columns, y) and no
\* row carries that year's generic label.
PeriodsStrictlyIncreasing ==
  call.op = "getPeriods" =>
    LET periods == ret.value
        loanDuration == call.args[1]
        year == loanDuration \div 12
    IN /\ \A j \in DOMAIN periods : \A k \in DOMAIN periods :
            j < k => periods[j].months < periods[k].months
       /\ TermOnYearBoundary(loanDuration, call.args[2]) =>
            /\ \E k \in DOMAIN periods :
                 /\ periods[k].months = loanDuration
                 /\ periods[k].label = "X  " \o ToString(year) \o "y"
            /\ \A k \in DOMAIN periods : periods[k].label # "  " \o ToString(year) \o "y"

\* a two-year horizon with a loan of 12 months: three rows, the middle one
\* marked
PeriodsStrictlyIncreasingWitness ==
  /\ call.op = "getPeriods"
  /\ call.args = <<12, 2>>
  /\ Len(ret.value) = 3
  /\ ret.value[2] = [label |-> "X  1y", months |-> 12]
  /\ ret.value[3] = [label |-> "  2y", months |-> 24]

\* the entry of index i of a cumulative series less the entry before it
PaidInMonth(cumulative, i) ==
  IF i = 0 THEN At(cumulative, 0) ELSE RSub(At(cumulative, i), At(cumulative, i - 1))

\* C20: inflation is an annual step function in populateMonthlyCosts:
\* monthlyRentingCosts[i] and the recurring part of monthlyBuyingCosts[i]
\* (what is left of it besides the month's principal and interest after
\* deduction) are constant within each block of 12 months, the value in block
\* k being the starting value multiplied by 1 + inflationRate/100 exactly k
\* times, the first block not inflated; the loan payment, principal plus
\* interest, is the level payment in every month of the term and 0 after it.
InflationStepFunction ==
  call.op = "populateMonthlyCosts" =>
    LET inputs == call.args[1]
        loan == getEffectiveLoanValues(inputs)
        factor == RAdd(One, RDiv(inputs.inflationRate, Hundred))
        keeps == RSub(One, RDiv(inputs.mortgageInterestDeduction, Hundred))
    IN \A k \in 0..(MaxMonths \div 12 - 1) :
         LET rent == RMul(StartingRentingCost(inputs), PowInt(factor, k))
             recurring == RMul(StartingRecurringCost(inputs), PowInt(factor, k))
         IN \A i \in (12 * k)..(12 * k + 11) :
              LET principal == PaidInMonth(ret.value.cumulativePrincipalPaid, i)
                  interest == PaidInMonth(ret.value.cumulativeInterestPaid, i)
              IN /\ At(ret.value.monthlyRentingCosts, i)
                      = At(ret.value.monthlyRentingCosts, 12 * k)
                 /\ At(ret.value.monthlyRentingCosts, i) = rent
                 /\ At(ret.value.monthlyBuyingCosts, i)
                      = RAdd(RAdd(principal, RMul(interest, keeps)), recurring)
                 /\ RAdd(principal, interest)
                      = IF i < loan.effectiveLoanTerm THEN loan.monthlyLoanPayment
                        ELSE Zero

\* a loan at interest with a deduction, rent, a recurring cost and inflation:
\* month 11 costs what month 0 does, month 12 twice as much to rent, and the
\* buying cost of the month after the term is the inflated recurring cost
InflationStepFunctionWitness ==
  /\ call.op = "populateMonthlyCosts"
  /\ call.args[1].inflationRate = R(100)
  /\ RGt(call.args[1].loanRate, Zero)
  /\ call.args[1].loanTerm = 12
  /\ call.args[1].remainingLoanTerm = Absent
  /\ RGt(call.args[1].mortgageInterestDeduction, Zero)
  /\ RGt(At(ret.value.monthlyRentingCosts, 0), Zero)
  /\ At(ret.value.monthlyRentingCosts, 11) = At(ret.value.monthlyRentingCosts, 0)
  /\ At(ret.value.monthlyRentingCosts, 12)
       = RMul(R(2), At(ret.value.monthlyRentingCosts, 0))
  /\ RGt(At(ret.value.monthlyBuyingCosts, 12), Zero)
  /\ At(ret.value.monthlyBuyingCosts, 12)
       = RMul(R(2), StartingRecurringCost(call.args[1]))

\* the PAYOFF path that calculate simulates for `inputs' (lines 646-761)
PayoffPlan(inputs) == PayoffPath(PayoffParams(inputs, getEffectiveLoanValues(inputs)))

\* month i of a PAYOFF path: nothing invested while a balance is left, a
\* balance that is never negative and never above the month before's, and,
\* after a month that ended with balance 0, a balance of 0 and an investment
\* that took in the payment and the extra payment before it compounded
PayoffMonthInOrder(pp, path, i) ==
  LET balance == At(path.payoffLoanBalances, i)
      balanceBefore == IF i = 0 THEN pp.payoffStartingBalance
                       ELSE At(path.payoffLoanBalances, i - 1)
      invested == At(path.payoffInvestmentValues, i)
      investedBefore == IF i = 0 THEN Zero ELSE At(path.payoffInvestmentValues, i - 1)
  IN /\ RGt(balance, Zero) => invested = Zero
     /\ RGe(balance, Zero)
     /\ RLe(balance, balanceBefore)
     /\ balanceBefore = Zero =>
          /\ balance = Zero
          /\ invested = RMul(RAdd(investedBefore,
                                  RAdd(pp.payoffRegularPayment, pp.extraPayment)),
                             RAdd(One, pp.monthlyInvestmentRate))

\* C21: in every month of the 360-month PAYOFF path of a payoff_vs_invest
\* run the investment value is 0 while the balance at the end of the month
\* is positive, the balance is never negative and never increases, and once
\* it is 0 it stays 0 and each later month adds the regular payment plus the
\* extra monthly payment to the investment; the rows of the
\* payoffVsInvestTable after period 0 report these monthly values.
PayoffPathOrder ==
  (call.op = "calculate" /\ call.args[1].scenario = "payoff_vs_invest") =>
    LET pp == PayoffParams(call.args[1], getEffectiveLoanValues(call.args[1]))
        path == PayoffPlan(call.args[1])
    IN /\ Len(path.payoffLoanBalances) = MaxMonths
       /\ Len(path.payoffInvestmentValues) = MaxMonths
       /\ \A i \in 0..(MaxMonths - 1) : PayoffMonthInOrder(pp, path, i)
       /\ \A k \in DOMAIN ret.value.payoffVsInvestTable :
            ret.value.periods[k].months > 0 =>
              LET monthIndex == MonthIndex(ret.value.periods[k].months)
              IN /\ ret.value.payoffVsInvestTable[k].payoffLoanBalance
                      = At(path.payoffLoanBalances, monthIndex)
                 /\ ret.value.payoffVsInvestTable[k].payoffInvestmentValue
                      = At(path.payoffInvestmentValues, monthIndex)

\* a loan that is open at the end of the first month and closed within the
\* first year, after which the payment and an extra payment are invested
PayoffPathOrderWitness ==
  /\ call.op = "calculate"
  /\ call.args[1].scenario = "payoff_vs_invest"
  /\ call.args[1].extraMonthlyPayment = One
  /\ RGt(At(PayoffPlan(call.args[1]).payoffLoanBalances, 0), Zero)
  /\ At(PayoffPlan(call.args[1]).payoffLoanBalances, 10) = Zero
  /\ RGt(At(PayoffPlan(call.args[1]).payoffInvestmentValues, 11),
         At(PayoffPlan(call.args[1]).payoffInvestmentValues, 10))
  /\ \E k \in DOMAIN ret.value.payoffVsInvestTable :
       /\ ret.value.periods[k].months = 12
       /\ RGt(ret.value.payoffVsInvestTable[k].payoffInvestmentValue, One)

\* the deduction rates a run is compared under
DeductionRates == {Zero, R(25), R(50)}

\* the balance a month of populateMonthlyCosts starts with: the effective
\* loan amount in the first month (line 128), the balance recorded for the
\* month before afterwards
BalanceBeforeMonth(loan, remainingLoanBalance, i) ==
  IF i = 0 THEN loan.effectiveLoanAmount ELSE At(remainingLoanBalance, i - 1)

\* C22: the mortgage-interest deduction only lowers the cash cost. In a
\* month i < effectiveLoanTerm of populateMonthlyCosts, monthlyBuyingCosts[i]
\* = principal_i + interest_i * (1 - mortgageInterestDeduction/100) +
\* recurring_i, interest_i being the month's interest on the balance and
\* principal_i the rest of the level payment, and cumulativeInterestPaid
\* grows by the whole of interest_i; in a month i >= effectiveLoanTerm,
\* monthlyBuyingCosts[i] is the recurring cost only; and
\* remainingLoanBalance, cumulativePrincipalPaid, cumulativeInterestPaid and
\* monthlyRentingCosts are the same in a run that differs only in
\* mortgageInterestDeduction.
DeductionLowersCashCostOnly ==
  call.op = "populateMonthlyCosts" =>
    LET inputs == call.args[1]
        loan == getEffectiveLoanValues(inputs)
        monthlyRate == RDiv(RDiv(inputs.loanRate, Hundred), Twelve)
        factor == RAdd(One, RDiv(inputs.inflationRate, Hundred))
        keeps == RSub(One, RDiv(inputs.mortgageInterestDeduction, Hundred))
    IN /\ \A k \in 0..(MaxMonths \div 12 - 1) :
            LET recurring == RMul(StartingRecurringCost(inputs), PowInt(factor, k))
            IN \A i \in (12 * k)..(12 * k + 11) :
                 LET interest == RMul(BalanceBeforeMonth(loan, ret.value.remainingLoanBalance, i),
                                      monthlyRate)
                     principal == RSub(loan.monthlyLoanPayment, interest)
                 IN IF i < loan.effectiveLoanTerm
                    THEN /\ At(ret.value.monthlyBuyingCosts, i)
                              = RAdd(RAdd(principal, RMul(interest, keeps)), recurring)
                         /\ PaidInMonth(ret.value.cumulativeInterestPaid, i) = interest
                         /\ PaidInMonth(ret.value.cumulativePrincipalPaid, i) = principal
                    ELSE At(ret.value.monthlyBuyingCosts, i) = recurring
       /\ \A rate \in DeductionRates :
            LET other == populateMonthlyCosts([inputs EXCEPT !.mortgageInterestDeduction = rate])
            IN /\ other.remainingLoanBalance = ret.value.remainingLoanBalance
               /\ other.cumulativePrincipalPaid = ret.value.cumulativePrincipalPaid
               /\ other.cumulativeInterestPaid = ret.value.cumulativeInterestPaid
               /\ other.monthlyRentingCosts = ret.value.monthlyRentingCosts

\* a loan at interest with a deduction and a recurring cost: the first month
\* costs less than principal, interest and recurring cost together, the
\* interest paid is positive, and the month after the term costs the
\* recurring cost
DeductionLowersCashCostOnlyWitness ==
  /\ call.op = "populateMonthlyCosts"
  /\ RGt(call.args[1].mortgageInterestDeduction, Zero)
  /\ RGt(call.args[1].loanRate, Zero)
  /\ RGt(call.args[1].loanAmount, Zero)
  /\ RGt(StartingRecurringCost(call.args[1]), Zero)
  /\ getEffectiveLoanValues(call.args[1]).effectiveLoanTerm < MaxMonths
  /\ RGt(At(ret.value.cumulativeInterestPaid, 0), Zero)
  /\ RLt(At(ret.value.monthlyBuyingCosts, 0),
         RAdd(RAdd(At(ret.value.cumulativePrincipalPaid, 0),
                   At(ret.value.cumulativeInterestPaid, 0)),
              StartingRecurringCost(call.args[1])))
  /\ At(ret.value.monthlyBuyingCosts, getEffectiveLoanValues(call.args[1]).effectiveLoanTerm)
       = StartingRecurringCost(call.args[1])

\* what the savings of the months i .. n-1 are worth after month n-1, the
\* savings of month i having compounded n - i times
RECURSIVE CompoundedSavings(_, _, _, _, _)
CompoundedSavings(monthlyBuyingCosts, monthlyRentingCosts, growth, i, n) ==
  IF i >= n THEN Zero
  ELSE RAdd(RMul(RSub(At(monthlyBuyingCosts, i), At(monthlyRentingCosts, i)),
                 PowInt(growth, n - i)),
            CompoundedSavings(monthlyBuyingCosts, monthlyRentingCosts, growth, i + 1, n))

\* the renting net worth after `months' months: the starting investment
\* (down payment less deposit) compounded over all of them, the savings of
\* each month compounded from that month on, and 75% of the deposit
RentingNetWorthOf(inputs, months, monthlyBuyingCosts, monthlyRentingCosts) ==
  LET growth == RAdd(One, RDiv(inputs.investmentReturnRate, R(1200)))
      start == RSub(RSub(inputs.purchasePrice, inputs.loanAmount), inputs.rentDeposit)
  IN RAdd(RAdd(RMul(start, PowInt(growth, months)),
               CompoundedSavings(monthlyBuyingCosts, monthlyRentingCosts, growth, 0, months)),
          RMul(Q(3, 4), inputs.rentDeposit))

\* C23: calculateRentingNetWorth(months) = V + 0.75 * rentDeposit, where V
\* starts at (purchasePrice - loanAmount) - rentDeposit and in each month i <
\* months first takes in monthlyBuyingCosts[i] - monthlyRentingCosts[i] and
\* then is multiplied by 1 + investmentReturnRate/1200, so that a month's
\* savings earn that month's return; for months = 0 the result is the down
\* payment less 0.25 * rentDeposit; the rentingNetWorth of every
\* comparisonTable row is that value, and with investmentReturnRate = 0 the
\* marketReturn of every row is 0.
RentingNetWorthCompounding ==
  /\ call.op = "calculateRentingNetWorth" =>
       LET inputs == call.args[1]
           costs == populateMonthlyCosts(inputs)
       IN /\ ret.value = RentingNetWorthOf(inputs, call.args[2], costs.monthlyBuyingCosts,
                                           costs.monthlyRentingCosts)
          /\ call.args[2] = 0 =>
               ret.value = RSub(RSub(inputs.purchasePrice, inputs.loanAmount),
                                RMul(Q(1, 4), inputs.rentDeposit))
  /\ (call.op = "calculate" /\ call.args[1].scenario = "buy_vs_rent") =>
       \A k \in DOMAIN ret.value.comparisonTable :
         /\ ret.value.comparisonTable[k].rentingNetWorth
              = RentingNetWorthOf(call.args[1], ret.value.periods[k].months,
                                  ret.value.monthlyBuyingCosts, ret.value.monthlyRentingCosts)
         /\ call.args[1].investmentReturnRate = Zero =>
              ret.value.comparisonTable[k].marketReturn = Zero

\* three months at 1200% a year with a deposit and savings in every month:
\* the result is above what the same months yield without a return
RentingNetWorthCompoundingWitness ==
  /\ call.op = "calculateRentingNetWorth"
  /\ call.args[2] = 3
  /\ call.args[1].investmentReturnRate = R(1200)
  /\ RGt(call.args[1].rentDeposit, Zero)
  /\ \A i \in 0..2 :
       RGt(At(populateMonthlyCosts(call.args[1]).monthlyBuyingCosts, i),
           At(populateMonthlyCosts(call.args[1]).monthlyRentingCosts, i))
  /\ RGt(ret.value,
         RentingNetWorthOf([call.args[1] EXCEPT !.investmentReturnRate = Zero], 3,
                           populateMonthlyCosts(call.args[1]).monthlyBuyingCosts,
                           populateMonthlyCosts(call.args[1]).monthlyRentingCosts))

\* series[0] + ... + series[n-1]
RECURSIVE SeriesSum(_, _)
SeriesSum(series, n) ==
  IF n = 0 THEN Zero ELSE RAdd(SeriesSum(series, n - 1), At(series, n - 1))

\* C24: in buy_vs_rent, for every period the cumulativeSavings of the
\* comparisonTable row equals the difference of the expenditureTable row of
\* the same period, buyingExpenditure - rentingExpenditure, where
\* buyingExpenditure = down payment + monthlyBuyingCosts[0..months-1] and
\* rentingExpenditure = rentDeposit + monthlyRentingCosts[0..months-1].
SavingsAreExpenditureDifference ==
  (call.op = "calculate" /\ call.args[1].scenario = "buy_vs_rent") =>
    /\ DOMAIN ret.value.comparisonTable = DOMAIN ret.value.periods
    /\ DOMAIN ret.value.expenditureTable = DOMAIN ret.value.periods
    /\ \A k \in DOMAIN ret.value.periods :
         LET inputs == call.args[1]
             months == ret.value.periods[k].months
             exp == ret.value.expenditureTable[k]
         IN /\ ret.value.comparisonTable[k].cumulativeSavings = exp.difference
            /\ exp.difference = RSub(exp.buyingExpenditure, exp.rentingExpenditure)
            /\ exp.buyingExpenditure
                 = RAdd(RSub(inputs.purchasePrice, inputs.loanAmount),
                        SeriesSum(ret.value.monthlyBuyingCosts, months))
            /\ exp.rentingExpenditure
                 = RAdd(inputs.rentDeposit, SeriesSum(ret.value.monthlyRentingCosts, months))

\* a run with a deposit, rent and a loan whose row of the first year shows
\* savings that differ from the starting ones
SavingsAreExpenditureDifferenceWitness ==
  /\ call.op = "calculate"
  /\ call.args[1].scenario = "buy_vs_rent"
  /\ RGt(call.args[1].rentDeposit, Zero)
  /\ RGt(call.args[1].loanAmount, Zero)
  /\ \E k \in DOMAIN ret.value.periods :
       /\ ret.value.periods[k].months = 12
       /\ RGt(ret.value.expenditureTable[k].rentingExpenditure, call.args[1].rentDeposit)
       /\ RGt(ret.value.comparisonTable[k].cumulativeSavings,
              RSub(RSub(call.args[1].purchasePrice, call.args[1].loanAmount),
                   call.args[1].rentDeposit))

\* C25: in payoff_vs_invest with extraMonthlyPayment = 0 and
\* extraUpfrontPayment = 0 the PAYOFF and the INVEST path are the same plan:
\* every row of the payoffVsInvestTable has payoffLoanBalance =
\* investLoanBalance, payoffInvestmentValue = investInvestmentValue and
\* difference = 0, the rows of the periods after the loan term included.
NothingExtraSamePlan ==
  (/\ call.op = "calculate"
   /\ call.args[1].scenario = "payoff_vs_invest"
   /\ OrElse(call.args[1].extraMonthlyPayment, Zero) = Zero
   /\ OrElse(call.args[1].extraUpfrontPayment, Zero) = Zero)
    => \A k \in DOMAIN ret.value.payoffVsInvestTable :
         LET row == ret.value.payoffVsInvestTable[k]
         IN /\ row.payoffLoanBalance = row.investLoanBalance
            /\ row.payoffInvestmentValue = row.investInvestmentValue
            /\ row.difference = Zero

\* C26: in sell_vs_keep, for every period, period 0 included and with or
\* without a refinance cash-out, the keepNetPosition of the sellVsKeepTable
\* row equals the netPosition of the keepExpensesTable row of the same
\* period.
KeepNetPositionsAgree ==
  (call.op = "calculate" /\ call.args[1].scenario = "sell_vs_keep") =>
    /\ DOMAIN ret.value.sellVsKeepTable = DOMAIN ret.value.keepExpensesTable
    /\ \A k \in DOMAIN ret.value.sellVsKeepTable :
         ret.value.sellVsKeepTable[k].keepNetPosition
           = ret.value.keepExpensesTable[k].netPosition

\* C27: in payoff_vs_invest, for every period, period 0 included and for any
\* extraUpfrontPayment >= 0, the payoffLoanBalance of the payoffVsInvestTable
\* row equals the loanBalance of the payoffAmortizationTable row of the same
\* period, and the investLoanBalance equals the loanBalance of the
\* investAmortizationTable row.
LoanBalancesAgreeWithAmortization ==
  (call.op = "calculate" /\ call.args[1].scenario = "payoff_vs_invest") =>
    /\ DOMAIN ret.value.payoffAmortizationTable = DOMAIN ret.value.payoffVsInvestTable
    /\ DOMAIN ret.value.investAmortizationTable = DOMAIN ret.value.payoffVsInvestTable
    /\ \A k \in DOMAIN ret.value.payoffVsInvestTable :
         /\ ret.value.payoffVsInvestTable[k].payoffLoanBalance
              = ret.value.payoffAmortizationTable[k].loanBalance
         /\ ret.value.payoffVsInvestTable[k].investLoanBalance
              = ret.value.investAmortizationTable[k].loanBalance

\* the tracker's series balance month by month: the position of month i is
\* the position before it (`start' before the first month) less the month's
\* cost plus the returns credited in the month
BalancesMonthly(start, costs, positions, returns, n) ==
  \A i \in 0..(n - 1) :
    At(positions, i)
      = RAdd(RSub(IF i = 0 THEN start ELSE At(positions, i - 1), At(costs, i)),
             PaidInMonth(returns, i))

\* C28: accounting identity of calculateKeepInvestmentTracking: after every
\* month i, monthlyKeepNetPosition[i] = initialCashOut - (monthlyBuyingCosts[0]
\* + ... + monthlyBuyingCosts[i]) + monthlyKeepInvestmentReturns[i], for any
\* cash-flow sequence, return rate and initial cash-out, positive or
\* negative; the series of every calculate run balance the same way from the
\* refinance cash-out on, and every keepExpensesTable row has netPosition =
\* refinanceCashOut + cumulativeExp + investmentReturns, cumulativeExp being
\* minus the costs of the months before the period.
TrackerAccountingIdentity ==
  /\ call.op = "calculateKeepInvestmentTracking" =>
       \A i \in 0..(call.args[3] - 1) :
         At(ret.value.monthlyKeepNetPosition, i)
           = RAdd(RSub(call.args[4], SeriesSum(call.args[1], i + 1)),
                  At(ret.value.monthlyKeepInvestmentReturns, i))
  /\ call.op = "calculate" =>
       BalancesMonthly(getEffectiveLoanValues(call.args[1]).refinanceCashOut,
                       ret.value.monthlyBuyingCosts, ret.value.monthlyKeepNetPosition,
                       ret.value.monthlyKeepInvestmentReturns, MaxMonths)
  /\ (call.op = "calculate" /\ call.args[1].scenario = "sell_vs_keep") =>
       \A k \in DOMAIN ret.value.keepExpensesTable :
         LET row == ret.value.keepExpensesTable[k]
         IN /\ row.cumulativeExp
                 = RNeg(SeriesSum(ret.value.monthlyBuyingCosts, ret.value.periods[k].months))
            /\ row.netPosition
                 = RAdd(RAdd(getEffectiveLoanValues(call.args[1]).refinanceCashOut,
                             row.cumulativeExp),
                        row.investmentReturns)

\* a tracker started with a negative cash-out that earns in a later month
TrackerAccountingIdentityWitness ==
  /\ call.op = "calculateKeepInvestmentTracking"
  /\ RLt(call.args[4], Zero)
  /\ RGt(call.args[2], Zero)
  /\ call.args[3] = 3
  /\ RLt(At(ret.value.monthlyKeepNetPosition, 0), Zero)
  /\ RGt(At(ret.value.monthlyKeepInvestmentReturns, 2), Zero)
  /\ At(ret.value.monthlyKeepNetPosition, 2)
       # RSub(call.args[4], SeriesSum(call.args[1], 3))

\* the loan of `inputs' is partway through its term and not refinanced
PartwayLoan(inputs) ==
  /\ RGt(inputs.loanAmount, Zero)
  /\ ~inputs.includeRefinance
  /\ inputs.remainingLoanTerm # Absent
  /\ 0 < inputs.remainingLoanTerm
  /\ inputs.remainingLoanTerm < inputs.loanTerm

\* C29: for a loan partway through its term (includeRefinance unset, 0 <
\* remainingLoanTerm < loanTerm) the level payment that
\* getEffectiveLoanValues recomputes over the remaining term from the
\* simulated balance is the original loan's level payment, the one that
\* repays loanAmount in loanTerm months: resolving an existing loan does not
\* change its monthly payment.
ResolvingKeepsThePayment ==
  (call.op = "getEffectiveLoanValues" /\ PartwayLoan(call.args[1])) =>
    LET inputs == call.args[1]
        monthlyRate == RDiv(RDiv(inputs.loanRate, Hundred), Twelve)
    IN /\ ret.value.monthlyLoanPayment
            = calculateMonthlyPayment(inputs.loanAmount, monthlyRate, inputs.loanTerm)
       /\ BalanceAfter(inputs.loanAmount, ret.value.monthlyLoanPayment, monthlyRate,
                       inputs.loanTerm) = Zero
       /\ BalanceAfter(ret.value.effectiveLoanAmount, ret.value.monthlyLoanPayment,
                       monthlyRate, inputs.remainingLoanTerm) = Zero

\* a loan at interest seven payments into its term of twelve whose payment
\* is more than an even share of the balance left
ResolvingKeepsThePaymentWitness ==
  /\ call.op = "getEffectiveLoanValues"
  /\ PartwayLoan(call.args[1])
  /\ RGt(call.args[1].loanRate, Zero)
  /\ call.args[1].loanTerm = 12
  /\ call.args[1].remainingLoanTerm = 5
  /\ RLt(ret.value.effectiveLoanAmount, call.args[1].loanAmount)
  /\ RGt(ret.value.monthlyLoanPayment, RDiv(ret.value.effectiveLoanAmount, R(5)))

\* C30: in buy_vs_rent, for every period and for both values of
\* inputs.includeSelling, the buyingNetWorth of the comparisonTable row
\* equals the netProceeds of the saleProceedsTable row of the same period:
\* the proceeds after selling costs, loan payoff and tax when includeSelling
\* is set, the asset value less the remaining loan balance otherwise, the
\* balance of period 0 being the effective loan amount.
BuyingNetWorthIsSaleProceeds ==
  (/\ call.op = "calculate"
   /\ call.args[1].scenario = "buy_vs_rent"
   /\ WellFormed(call.args[1])) =>
    /\ DOMAIN ret.value.comparisonTable = DOMAIN ret.value.saleProceedsTable
    /\ \A k \in DOMAIN ret.value.comparisonTable :
         LET inputs == call.args[1]
             months == ret.value.periods[k].months
             row == ret.value.comparisonTable[k]
             sale == ret.value.saleProceedsTable[k]
         IN /\ IsFinite(row.buyingNetWorth)
            /\ row.buyingNetWorth = sale.netProceeds
            /\ sale.salePrice = row.assetValue
            /\ inputs.includeSelling =>
                 row.buyingNetWorth
                   = RSub(RSub(RSub(row.assetValue, sale.totalSellingCosts), sale.loanPayoff),
                          sale.taxOnGains)
            /\ ~inputs.includeSelling =>
                 row.buyingNetWorth
                   = RSub(row.assetValue,
                          IF months = 0
                          THEN getEffectiveLoanValues(inputs).effectiveLoanAmount
                          ELSE At(ret.value.remainingLoanBalance,
                                  MinInt(months - 1, MaxMonths - 1)))

\* a run without selling costs on a loan part of which is repaid in the
\* first month: the row of period 0 is worth the asset less the whole loan
BuyingNetWorthIsSaleProceedsWitness ==
  /\ call.op = "calculate"
  /\ call.args[1].scenario = "buy_vs_rent"
  /\ WellFormed(call.args[1])
  /\ ~call.args[1].includeSelling
  /\ RGt(call.args[1].loanAmount, Zero)
  /\ RLt(At(ret.value.remainingLoanBalance, 0), call.args[1].loanAmount)
  /\ ret.value.periods[1].months = 0
  /\ ret.value.comparisonTable[1].buyingNetWorth
       = RSub(call.args[1].purchasePrice, call.args[1].loanAmount)
  /\ ret.value.saleProceedsTable[1].netProceeds
       = RSub(call.args[1].purchasePrice, call.args[1].loanAmount)

====
